---- MODULE Spec2Model ----
(***************************************************************************)
(* TaniClaw decision cycle: the rules engine, the lifecycle state engine,  *)
(* the security guard, the tool executor and the agent orchestrator that   *)
(* composes them per plant.                                                *)
(*                                                                         *)
(* Time is counted in half days: a timestamp is a number of half days, and *)
(* timedelta.days / date.today() floor it to whole days.                   *)
(***************************************************************************)
EXTENDS Integers, Sequences, FiniteSets, TLC

VARIABLES
    plants,       \* plants table: plant id -> row
    actions,      \* actions table: plant id -> rows in insertion order
    history,      \* history table: plant id -> rows in insertion order
    now,          \* the clock, in half days
    settings,     \* Settings fields read by the core
    knowledge,    \* KnowledgeBase._plants: plant type -> lifecycle stages
    ruleDocs,     \* the rule documents of the rules directory
    rules,        \* RulesEngine.rules after _load_rules
    securityLog,  \* events written by SecurityGuard.log_security_event, per event type
    execLog,      \* the calls ToolExecutor.execute received
    tasks,        \* cycles in progress (one slot per coroutine)
    used,         \* requests served so far, and the number a behaviour serves
    probe,        \* the last override request or direct call of an operation, and its outcome
    weatherCache  \* weather cache table: the row of the last cached date

vars == << plants, actions, history, now, settings, knowledge, ruleDocs, rules,
           securityLog, execLog, tasks, used, probe, weatherCache >>

----------------------------------------------------------------------------
(* Bounds of the model *)

\* the clock stops here (half days) in the cycle specification
MaxNow == 2
\* requests (sweeps, manual triggers, overrides) served in one behaviour
MaxRequests == 2
\* the clock values a direct state-engine call is tried at (half days)
MaxProbeNow == 31
\* rules in one rule document of a direct evaluation
MaxRulesPerDoc == 2
\* direct calls of evaluate in one behaviour
MaxEvaluations == 2
\* rows already in the actions table when the guard is called directly
MaxProbeCount == 2
\* cycles one plant goes through in the lifecycle specification
MaxLifeCycles == 6
\* the clock stops here (half days) in the growth specification
MaxGrowNow == 12

\* the ids of the plants table, and the order its queries return them in
PlantIds == DOMAIN plants
PlantOrder == ("p1" :> 1) @@ ("p2" :> 2) @@ ("p3" :> 3)

Max(a, b) == IF a >= b THEN a ELSE b
MinOf(S) == CHOOSE x \in S : \A y \in S : x <= y

\* timedelta.days: whole days of a difference of timestamps (floor)
days(delta) == delta \div 2

\* dict.get(key, default)
Get(d, key, default) == IF key \in DOMAIN d THEN d[key] ELSE default

----------------------------------------------------------------------------
(* State engine: core/state.py, core/knowledge.py *)

PlantState == {"seed", "germination", "vegetative", "flowering", "harvest",
               "dormant", "dead"}

TRANSITIONS_harvest_final ==
    [s \in PlantState |->
        CASE s = "seed" -> << "germination", "dead" >>
          [] s = "germination" -> << "vegetative", "dead" >>
          [] s = "vegetative" -> << "flowering", "harvest", "dead" >>
          [] s = "flowering" -> << "harvest", "vegetative", "dead" >>
          [] s = "harvest" -> << "dead" >>
          [] s = "dormant" -> << "vegetative" >>
          [] s = "dead" -> << >>]

TRANSITIONS ==
    [s \in PlantState |->
        CASE s = "seed" -> << "germination", "dead" >>
          [] s = "germination" -> << "vegetative", "dead" >>
          [] s = "vegetative" -> << "flowering", "harvest", "dead" >>
          [] s = "flowering" -> << "harvest", "vegetative", "dead" >>
          [] s = "harvest" -> << "dormant", "dead" >>
          [] s = "dormant" -> << "vegetative" >>
          [] s = "dead" -> << >>]

PLANTS_WITHOUT_FLOWERING_leafy == {"spinach"}

PLANTS_WITHOUT_FLOWERING == {"spinach", "lettuce", "hydroponic"}

\* the result None of the state engine and of the knowledge base
None == "none"

get_current_state_unknown_dead(plant) ==
    IF plant.current_state \in PlantState THEN plant.current_state ELSE "dead"

get_current_state_without_dead(plant) ==
    IF plant.current_state \in PlantState \ {"dead"} THEN plant.current_state ELSE "seed"

\* PlantState(plant.current_state), SEED when the stored string is no state
get_current_state(plant) ==
    IF plant.current_state \in PlantState THEN plant.current_state ELSE "seed"

get_days_in_current_state(plant) ==
    Max(0, days(now - plant.state_changed_at))

\* the first stage of the plant type's lifecycle with that name, as a set
\* (empty: None)
get_stage_info(plant_type, stage) ==
    IF plant_type \notin DOMAIN knowledge
    THEN {}
    ELSE LET stages == knowledge[plant_type]
             hits == {i \in DOMAIN stages : stages[i].name = stage}
         IN  IF hits = {} THEN {} ELSE {stages[MinOf(hits)]}

get_stage_duration(plant_type, stage) ==
    LET info == get_stage_info(plant_type, stage)
    IN  IF info = {}
        THEN << 7, 14 >>
        ELSE LET duration == Get(CHOOSE i \in info : TRUE, "duration_days", << 7, 14 >>)
             IN  << duration[1],
                    IF Len(duration) > 1 THEN duration[2] ELSE duration[1] >>

\* the last candidate, dead included
LastCandidate(valid_next) ==
    IF valid_next = << >> THEN None ELSE valid_next[Len(valid_next)]

LastNotDead(valid_next) ==
    LET alive == {i \in DOMAIN valid_next : valid_next[i] # "dead"}
    IN  IF alive = {} THEN None ELSE valid_next[CHOOSE i \in alive : \A j \in alive : j <= i]

\* `for candidate in valid_next: if candidate != PlantState.DEAD: return candidate`
FirstNotDead(valid_next) ==
    LET alive == {i \in DOMAIN valid_next : valid_next[i] # "dead"}
    IN  IF alive = {} THEN None ELSE valid_next[MinOf(alive)]

gate_closed_never(days_in_state, max_days) == FALSE

gate_closed_inclusive(days_in_state, max_days) == days_in_state <= max_days

\* `if days_in_state < max_days: return None`
gate_closed(days_in_state, max_days) == days_in_state < max_days

should_transition(plant) ==
    LET current == get_current_state(plant)
        days_in_state == get_days_in_current_state(plant)
        max_days == get_stage_duration(plant.plant_type, current)[2]
        valid_next == TRANSITIONS[current]
        filtered == SelectSeq(valid_next, LAMBDA s : s # "flowering")
        chosen == IF plant.plant_type \in PLANTS_WITHOUT_FLOWERING /\ filtered # << >>
                  THEN filtered ELSE valid_next
    IN  IF current = "dead" THEN None
        ELSE IF gate_closed(days_in_state, max_days) THEN None
        ELSE IF valid_next = << >> THEN None
        ELSE FirstNotDead(chosen)

get_next_state(plant) ==
    FirstNotDead(TRANSITIONS[get_current_state(plant)])

----------------------------------------------------------------------------
(* Rules engine: core/rules.py *)

\* YAML scalars and lists, tagged with their Python type
Num(n) == [k |-> "num", v |-> n]
Str(s) == [k |-> "str", v |-> s]
Lst(S) == [k |-> "list", v |-> S]
\* Python's None as a value
Null == [k |-> "null", v |-> 0]

\* x in y for two Python strings, over the strings of the model
IsSubstring(x, y) ==
    \/ x = y
    \/ << x, y >> \in {<< "loam", "loamy" >>, << "veg", "vegetative" >>}

\* str(actual)
ToStr(a) == IF a.k = "str" THEN a.v ELSE "<repr>"

\* one condition against the context: "T", "F", or "E" when Python raises
\* TypeError (an ordering or a membership test between unlike types)
absent_field_result_by_operator(operator) ==
    IF operator \in {"neq", "not_in"} THEN "T" ELSE "F"

\* `if actual is None: return False`
absent_field_result(operator) == "F"

check_condition(condition, context) ==
    LET field == Get(condition, "field", None)
        operator == Get(condition, "operator", None)
        value == Get(condition, "value", Null)
    IN  IF field \notin DOMAIN context
        THEN absent_field_result(operator)
        ELSE LET actual == context[field]
                 same == actual.k = value.k /\ actual.v = value.v
                 ordered == actual.k = "num" /\ value.k = "num"
             IN  CASE operator = "eq" -> IF same THEN "T" ELSE "F"
                   [] operator = "neq" -> IF same THEN "F" ELSE "T"
                   [] operator = "gt" ->
                        IF ~ordered THEN "E" ELSE IF actual.v > value.v THEN "T" ELSE "F"
                   [] operator = "gte" ->
                        IF ~ordered THEN "E" ELSE IF actual.v >= value.v THEN "T" ELSE "F"
                   [] operator = "lt" ->
                        IF ~ordered THEN "E" ELSE IF actual.v < value.v THEN "T" ELSE "F"
                   [] operator = "lte" ->
                        IF ~ordered THEN "E" ELSE IF actual.v <= value.v THEN "T" ELSE "F"
                   [] operator = "in" ->
                        CASE value.k = "list" -> IF actual \in value.v THEN "T" ELSE "F"
                          [] value.k = "str" /\ actual.k = "str" ->
                                IF IsSubstring(actual.v, value.v) THEN "T" ELSE "F"
                          [] OTHER -> "E"
                   [] operator = "not_in" ->
                        CASE value.k = "list" -> IF actual \in value.v THEN "F" ELSE "T"
                          [] value.k = "str" /\ actual.k = "str" ->
                                IF IsSubstring(actual.v, value.v) THEN "F" ELSE "T"
                          [] OTHER -> "E"
                   [] operator = "contains" ->
                        IF value.k # "str" THEN "E"
                        ELSE IF IsSubstring(value.v, ToStr(actual)) THEN "T" ELSE "F"
                   [] OTHER -> "F"

\* all(...) over the conditions from position i on: stops at the first false
\* condition, raises at the first raising one
RECURSIVE all_conditions(_, _, _)
all_conditions(conditions, context, i) ==
    IF i > Len(conditions) THEN "T"
    ELSE LET r == check_condition(conditions[i], context)
         IN  IF r = "T" THEN all_conditions(conditions, context, i + 1) ELSE r

check_rule_vacuous(rule, context) ==
    all_conditions(Get(rule, "conditions", << >>), context, 1)

\* `if not conditions: return False`, then all(...)
check_rule(rule, context) ==
    LET conditions == Get(rule, "conditions", << >>)
    IN  IF conditions = << >> THEN "F" ELSE all_conditions(conditions, context, 1)

\* the sort key of _load_rules
priority_of(rule) == Get(rule, "priority", 10)

\* x placed behind every element whose key is not smaller: the place a stable
\* descending sort gives an element that came last in the input
InsertStable(sorted, x) ==
    LET before == {i \in DOMAIN sorted : priority_of(sorted[i]) >= priority_of(x)}
        n == Cardinality(before)
    IN  SubSeq(sorted, 1, n) \o << x >> \o SubSeq(sorted, n + 1, Len(sorted))

RECURSIVE sorted_by_priority_ascending(_)
sorted_by_priority_ascending(all_rules) ==
    IF all_rules = << >> THEN << >>
    ELSE LET rest == sorted_by_priority_ascending(SubSeq(all_rules, 1, Len(all_rules) - 1))
             x == all_rules[Len(all_rules)]
             n == Cardinality({i \in DOMAIN rest : priority_of(rest[i]) <= priority_of(x)})
         IN  SubSeq(rest, 1, n) \o << x >> \o SubSeq(rest, n + 1, Len(rest))

\* sorted(all_rules, key=priority, reverse=True): descending and stable
RECURSIVE sorted_by_priority(_)
sorted_by_priority(all_rules) ==
    IF all_rules = << >> THEN << >>
    ELSE InsertStable(sorted_by_priority(SubSeq(all_rules, 1, Len(all_rules) - 1)),
                      all_rules[Len(all_rules)])

\* a document adds its rules when it could be read and parsed, has a "rules"
\* key, and extend accepts the value under it (a list; a text adds its
\* characters): a null or a number there raises inside the try
doc_rules(doc) ==
    IF doc.readable /\ "rules" \in DOMAIN doc /\ Get(doc, "iterable", TRUE)
    THEN doc.rules ELSE << >>

\* the rules of the documents named in `names`, in ascending file-name order
RECURSIVE all_rules_of(_, _)
all_rules_of(docs, names) ==
    IF names = {} THEN << >>
    ELSE LET first == MinOf(names)
         IN  doc_rules(docs[first]) \o all_rules_of(docs, names \ {first})

load_rules(docs) == sorted_by_priority(all_rules_of(docs, DOMAIN docs))

\* sorted(all_rules, key=lambda r: r.get("priority", 10)) stands after the
\* try: it raises for an entry that is no mapping (a tagged scalar), and for
\* two or more entries of which one has a priority that is no number (kept
\* under priority_text)
load_raises(docs) ==
    LET all_rules == all_rules_of(docs, DOMAIN docs)
    IN  \/ \E i \in DOMAIN all_rules : "k" \in DOMAIN all_rules[i]
        \/ /\ Len(all_rules) >= 2
           /\ \E i \in DOMAIN all_rules : "priority_text" \in DOMAIN all_rules[i]

\* the action a matching rule yields: a copy of its template, stamped
stamped_action(rule) ==
    LET template == Get(rule, "action", << >>)
        keys == DOMAIN template \cup {"rule_id", "rule_name", "priority"}
    IN  [f \in keys |->
            CASE f = "rule_id" -> Get(rule, "id", "unknown")
              [] f = "rule_name" -> Get(rule, "name", "")
              [] f = "priority" -> priority_of(rule)
              [] OTHER -> template[f]]

\* evaluate over the rules from position i on: [raised, matched]
RECURSIVE evaluate_from(_, _, _)
evaluate_from(loaded, context, i) ==
    IF i > Len(loaded) THEN [raised |-> FALSE, matched |-> << >>]
    ELSE LET r == check_rule(loaded[i], context)
         IN  IF r = "E" THEN [raised |-> TRUE, matched |-> << >>]
             ELSE LET rest == evaluate_from(loaded, context, i + 1)
                  IN  IF rest.raised THEN rest
                      ELSE IF r = "T"
                           THEN [rest EXCEPT !.matched = << stamped_action(loaded[i]) >> \o @]
                           ELSE rest

evaluate(context) == evaluate_from(rules, context, 1)

----------------------------------------------------------------------------
(* Security guard: core/security.py *)

ALLOWED_ACTION_TYPES == {"water", "skip_water", "fertilize", "harvest", "notify",
                         "alert", "log"}

MAX_FERTILIZER_GRAMS == 20
MAX_WATER_AMOUNT_ML == 2000

\* date.today() as a timestamp: the start of the current day
start_of_today == (now \div 2) * 2

get_today_actions_executed(plant_id) ==
    SelectSeq(actions[plant_id],
              LAMBDA a : a.created_at >= start_of_today /\ a.status = "executed"
                         /\ a.source # "manual")

get_today_actions(plant_id) ==
    SelectSeq(actions[plant_id], LAMBDA a : a.created_at >= start_of_today)

get_today_actions_count(plant_id) == Len(get_today_actions(plant_id))

check_daily_limit_off(plant_id) == TRUE

check_daily_limit_inclusive(plant_id) ==
    get_today_actions_count(plant_id) <= settings.max_daily_actions

check_daily_limit(plant_id) ==
    get_today_actions_count(plant_id) < settings.max_daily_actions

check_watering_limit_configured(action) ==
    Get(action, "amount_ml", Num(0)).v <= settings.max_watering_amount_ml

check_watering_limit(action) ==
    Get(action, "amount_ml", Num(0)).v <= MAX_WATER_AMOUNT_ML

check_fertilizer_limit(action) ==
    Get(action, "amount_grams", Num(0)).v <= MAX_FERTILIZER_GRAMS

is_human_override_never(action) == FALSE

is_human_override(action) == Get(action, "source", None) = "manual"

validate_action_quota_first(action, plant_id) ==
    LET action_type == Get(action, "type", "")
    IN  IF is_human_override(action)
        THEN [is_valid |-> TRUE, reason |-> "human_override", event |-> "none"]
        ELSE IF ~check_daily_limit(plant_id)
        THEN [is_valid |-> FALSE, reason |-> "daily_limit",
              event |-> "blocked_daily_limit"]
        ELSE IF action_type \notin ALLOWED_ACTION_TYPES
        THEN [is_valid |-> FALSE, reason |-> "unknown_type",
              event |-> "blocked_unknown_type"]
        ELSE IF action_type = "water" /\ ~check_watering_limit(action)
        THEN [is_valid |-> FALSE, reason |-> "watering_limit",
              event |-> "blocked_watering_limit"]
        ELSE IF action_type = "fertilize" /\ ~check_fertilizer_limit(action)
        THEN [is_valid |-> FALSE, reason |-> "fertilizer_limit",
              event |-> "blocked_fertilizer_limit"]
        ELSE [is_valid |-> TRUE, reason |-> "ok", event |-> "none"]

\* the verdict of validate_action: (is_valid, reason), and the security event
\* a rejection logs ("none" when it logs nothing)
validate_action(action, plant_id) ==
    LET action_type == Get(action, "type", "")
    IN  IF is_human_override(action)
        THEN [is_valid |-> TRUE, reason |-> "human_override", event |-> "none"]
        ELSE IF action_type \notin ALLOWED_ACTION_TYPES
        THEN [is_valid |-> FALSE, reason |-> "unknown_type",
              event |-> "blocked_unknown_type"]
        ELSE IF ~check_daily_limit(plant_id)
        THEN [is_valid |-> FALSE, reason |-> "daily_limit",
              event |-> "blocked_daily_limit"]
        ELSE IF action_type = "water" /\ ~check_watering_limit(action)
        THEN [is_valid |-> FALSE, reason |-> "watering_limit",
              event |-> "blocked_watering_limit"]
        ELSE IF action_type = "fertilize" /\ ~check_fertilizer_limit(action)
        THEN [is_valid |-> FALSE, reason |-> "fertilizer_limit",
              event |-> "blocked_fertilizer_limit"]
        ELSE [is_valid |-> TRUE, reason |-> "ok", event |-> "none"]

\* `amount <= MAX_...` with the amount None: validate_action raises TypeError
\* when it reaches the amount check of a water or fertilize action whose
\* amount field is present and null
validate_action_raises(action, plant_id) ==
    LET action_type == Get(action, "type", "")
    IN  /\ ~is_human_override(action)
        /\ action_type \in ALLOWED_ACTION_TYPES
        /\ check_daily_limit(plant_id)
        /\ \/ action_type = "water" /\ Get(action, "amount_ml", Num(0)).k = "null"
           \/ action_type = "fertilize" /\ Get(action, "amount_grams", Num(0)).k = "null"

SecurityEvents == {"blocked_unknown_type", "blocked_daily_limit",
                   "blocked_watering_limit", "blocked_fertilizer_limit"}

log_security_event_dropped(log, event_type) == log

\* log_security_event: one more line of that event type in the process log
log_security_event(log, event_type) ==
    IF event_type = "none" THEN log
    ELSE [log EXCEPT ![event_type] = @ + 1]

----------------------------------------------------------------------------
(* Tool executor: core/tools.py *)

\* where execute can raise: nowhere; in the handler or the first
\* create_action; in add_history; in the log line after both writes; in the
\* first create_action and again in the create_action of the except branch
ExecFaults == {"none", "handler", "history", "log", "record"}

\* the description decides: None is refused by the actions table (the column
\* is not nullable) on every create_action; action.get('description', '')[:60]
\* raises for any other description that is no string
description_fault(action) ==
    LET description == Get(action, "description", Str(""))
    IN  CASE description.k = "str" -> "none"
          [] description.k = "null" -> "record"
          [] OTHER -> "log"

action_row(plant_id, action, status) ==
    [action_type |-> Get(action, "type", "log"),
     source |-> Get(action, "source", "rules"),
     status |-> status,
     created_at |-> now]

\* the rows execute adds to the actions table
execute_rows(plant_id, action, fault) ==
    CASE fault = "none" -> << action_row(plant_id, action, "executed") >>
      [] fault = "handler" -> << action_row(plant_id, action, "skipped") >>
      [] fault \in {"history", "log"} ->
            << action_row(plant_id, action, "executed"),
               action_row(plant_id, action, "skipped") >>
      [] fault = "record" -> << >>

\* the rows execute adds to the history table
execute_history(plant_id, action, fault) ==
    IF fault \in {"none", "log"}
    THEN << [event_type |-> "action",
             action_type |-> Get(action, "type", "log"),
             source |-> Get(action, "source", "rules")] >>
    ELSE << >>

\* the result execute returns; status "raised": it returns none, the
\* exception of the except branch leaves the call
execute_result(plant_id, action, fault) ==
    [status |-> CASE fault = "none" -> "ok"
                  [] fault = "record" -> "raised"
                  [] OTHER -> "error",
     action_type |-> Get(action, "type", "log")]

----------------------------------------------------------------------------
(* Memory and context: core/memory.py, core/core.py *)

\* the rows get_last_action_of_type chooses from
executed_of_type(plant_id, action_type) ==
    SelectSeq(actions[plant_id],
              LAMBDA a : a.action_type = action_type /\ a.status = "executed")

get_days_since_last_action_unset(plant_id, action_type) ==
    LET done == executed_of_type(plant_id, action_type)
    IN  IF done = << >> THEN 0
        ELSE Max(0, days(now - done[Len(done)].created_at))

\* 9999 when no row is found, else max(0, (now - executed).days)
get_days_since_last_action(plant_id, action_type) ==
    LET done == executed_of_type(plant_id, action_type)
    IN  IF done = << >> THEN 9999
        ELSE Max(0, days(now - done[Len(done)].created_at))

get_days_since_planting(plant) == Max(0, days(now) - days(plant.plant_date))

build_context(plant_id, plant, weather) ==
    [plant_type |-> Str(plant.plant_type),
     plant_state |-> Str(plant.current_state),
     days_since_planting |-> Num(get_days_since_planting(plant)),
     days_in_state |-> Num(get_days_in_current_state(plant)),
     days_since_last_water |-> Num(get_days_since_last_action(plant_id, "water")),
     days_since_last_fertilize |-> Num(get_days_since_last_action(plant_id, "fertilize")),
     today_rainfall_mm |-> Num(Get(weather, "rainfall_mm", 0)),
     temp_max |-> Num(Get(weather, "temp_max", 28)),
     temp_min |-> Num(Get(weather, "temp_min", 22)),
     humidity |-> Num(Get(weather, "humidity", 70)),
     growing_method |-> Str("soil"),
     soil_condition |-> Str("loamy")]

safe_defaults_rainy == [temp_max |-> 28, temp_min |-> 22, humidity |-> 70, rainfall_mm |-> 10]

\* WeatherService._safe_defaults
safe_defaults == [temp_max |-> 28, temp_min |-> 22, humidity |-> 70, rainfall_mm |-> 0]

\* what the weather API can answer: a rainy day
ApiWeathers == {[temp_max |-> 26, temp_min |-> 21, humidity |-> 90, rainfall_mm |-> 10]}

\* get_cached_weather for today's date: the cached row, if there is one
NoCache == [date |-> -1]
today == now \div 2
get_cached_weather == IF weatherCache.date = today THEN {weatherCache.weather} ELSE {}

\* get_weather: the cached weather; else the API's answer, which is cached;
\* else, the API failing, the safe defaults, which are not cached
get_weather_results ==
    IF get_cached_weather # {}
    THEN {[weather |-> w, cache |-> weatherCache] : w \in get_cached_weather}
    ELSE {[weather |-> w, cache |-> [date |-> today, weather |-> w]] : w \in ApiWeathers}
         \cup {[weather |-> safe_defaults, cache |-> weatherCache]}

----------------------------------------------------------------------------
(* Inputs of the cycle specification *)

\* rule documents: external data read by _load_rules
RuleWater ==
    [id |-> "water_dry", priority |-> 80,
     conditions |-> << [field |-> "days_since_last_water", operator |-> "gte", value |-> Num(1)],
                       [field |-> "today_rainfall_mm", operator |-> "lt", value |-> Num(5)] >>,
     action |-> [type |-> "water", amount_ml |-> Num(300)]]
RuleFlood ==
    [id |-> "flood", priority |-> 20,
     conditions |-> << [field |-> "plant_state", operator |-> "eq", value |-> Str("vegetative")] >>,
     action |-> [type |-> "water", amount_ml |-> Num(2500)]]
RuleSpray ==
    [id |-> "spray",
     conditions |-> << [field |-> "plant_type", operator |-> "eq", value |-> Str("spinach")] >>,
     action |-> [type |-> "spray"]]
RuleAlert ==
    [id |-> "harvest_alert", priority |-> 80,
     conditions |-> << [field |-> "plant_state", operator |-> "eq", value |-> Str("harvest")] >>,
     action |-> [type |-> "alert"]]
RuleHarvestLog ==
    [id |-> "harvest_log", priority |-> 5,
     conditions |-> << [field |-> "plant_state", operator |-> "eq", value |-> Str("harvest")] >>,
     action |-> [type |-> "log"]]
RuleNoSensor ==
    [id |-> "no_sensor", priority |-> 20,
     conditions |-> << [field |-> "soil_moisture", operator |-> "neq", value |-> Str("wet")] >>,
     action |-> [type |-> "log"]]
RuleNotIn ==
    [id |-> "not_listed", priority |-> 10,
     conditions |-> << [field |-> "plant_state", operator |-> "eq", value |-> Str("vegetative")],
                       [field |-> "pest", operator |-> "not_in",
                        value |-> Lst({Str("aphid"), Str("mite")})] >>,
     action |-> [type |-> "notify"]]

\* the rule documents of the cycle specification; the template of the spray
\* rule states a source of its own
CycleRuleDocs ==
    (1 :> [readable |-> TRUE, rules |-> << RuleFlood, RuleWater >>])
    @@ (2 :> [readable |-> TRUE,
              rules |-> << [RuleSpray EXCEPT !.action = [type |-> "spray",
                                                                  source |-> "manual"]],
                           RuleAlert, RuleNoSensor, RuleHarvestLog >>])

\* knowledge documents: external data. chili flowers, spinach does not;
\* any other plant type is unknown to the knowledge base
StageList(d) ==
    << [name |-> "seed", duration_days |-> d],
       [name |-> "germination", duration_days |-> d],
       [name |-> "vegetative", duration_days |-> d],
       [name |-> "flowering", duration_days |-> d],
       [name |-> "harvest", duration_days |-> d],
       [name |-> "dormant", duration_days |-> d] >>

CycleKnowledge ==
    [t \in {"chili", "spinach"} |-> StageList(<< 0, 1 >>)]

\* what the advisory suggester can answer (None: no suggestion)
Suggestions == {<< >>,
                [type |-> "water", amount_ml |-> Num(200), source |-> "llm"],
                [type |-> "water", amount_ml |-> Num(3000), source |-> "llm"]}

\* the bodies of override requests: a water amount above the ceiling, and a
\* type outside the allow-list
OverrideBodies ==
    {[action_type |-> "water", description |-> Str("by hand"),
      amount_ml |-> Num(5000), amount_grams |-> Null],
     [action_type |-> "prune", description |-> Str("by hand"),
      amount_ml |-> Null, amount_grams |-> Null]}

\* the coroutine slots of the running process
Tasks == DOMAIN tasks

\* a coroutine slot between requests. Locals of run_cycle: queue (the plants
\* still to visit), all_results; of run_single_plant: context, matched (what
\* evaluate returned), pending (the rest of the loop over it), results.
\* plant (the row run_single_plant loaded, or reloaded), new_state.
\* Kept for the properties: plan (the plants run_cycle read), calls (the
\* plants run_single_plant was called for), failed (the plants whose cycle
\* raised), consulted (calls of suggest_action in this cycle), log (one
\* entry per validated action)
IdleTask ==
    [pc |-> "idle", kind |-> "none", queue |-> << >>, context |-> << >>,
     matched |-> << >>, pending |-> << >>, results |-> << >>, log |-> << >>,
     consulted |-> 0, plan |-> << >>, calls |-> << >>, failed |-> {},
     all_results |-> << >>, read |-> << >>, plant |-> << >>, new_state |-> None]

\* a coroutine that is running (not suspended in an await) holds the event
\* loop; a cycle the scheduler runs in its own thread (kind "thread") has an
\* event loop of its own
Busy ==
    \E t \in Tasks :
        /\ tasks[t].kind # "thread"
        /\ tasks[t].pc \in {"begin", "cached", "loop", "done", "raised"}

TotalEvents(log) ==
    log["blocked_unknown_type"] + log["blocked_daily_limit"]
    + log["blocked_watering_limit"] + log["blocked_fertilizer_limit"]

----------------------------------------------------------------------------
(* Agent orchestrator: core/core.py, api/routers/actions.py *)

cycle_accepts_everything(verdict) == TRUE

\* `if is_valid:` in the cycle
cycle_accepts(verdict) == verdict.is_valid

\* `if not is_valid and reason != "human_override": raise` in the override
override_accepts(verdict) == ~(~verdict.is_valid /\ verdict.reason # "human_override")

\* one call of execute as the execution log keeps it
ExecEntry(action, verdict, count, rows) ==
    [type |-> Get(action, "type", "log"),
     source |-> Get(action, "source", "rules"),
     amount_ml |-> Get(action, "amount_ml", Num(0)),
     amount_grams |-> Get(action, "amount_grams", Num(0)),
     is_valid |-> verdict.is_valid,
     reason |-> verdict.reason,
     count |-> count,
     rows |-> rows]

\* action.setdefault("source", source)
with_source_kept(action, source) ==
    [f \in DOMAIN action \cup {"source"} |->
        IF f = "source" /\ f \notin DOMAIN action THEN source ELSE action[f]]

\* action["source"] = source
with_source(action, source) ==
    [f \in DOMAIN action \cup {"source"} |->
        IF f = "source" THEN source ELSE action[f]]

rules_after_write_shared(action) ==
    [i \in DOMAIN rules |->
        IF "action" \in DOMAIN rules[i]
           /\ Get(rules[i], "id", "unknown") = Get(action, "rule_id", None)
        THEN [rules[i] EXCEPT !.action = with_source(@, action.source)]
        ELSE rules[i]]

\* the rule set once the orchestrator has written action["source"]: evaluate
\* hands out `rule.get("action", {}).copy()`, the write lands on the copy
rules_after_write(action) == rules

\* the `else` of `if is_valid:` in the loop: the loop goes on
pc_after_reject_abort == "done"

pc_after_reject == "loop"

\* the rest of one turn of the loop (or of the suggester branch) of task t
\* for plant p once validate_action has answered `verdict`, having read
\* `count` actions of today: the rejection is logged, or the action
\* executed. `local` holds the locals of the coroutine after the turn and
\* where it goes on after an accepted action. An exception that leaves
\* execute leaves run_single_plant
ExecuteValidated(t, p, action, fault, local, verdict, count) ==
    LET accepted == cycle_accepts(verdict)
        rows == IF accepted THEN execute_rows(p, action, fault) ELSE << >>
        hist == IF accepted THEN execute_history(p, action, fault) ELSE << >>
        result == execute_result(p, action, fault)
    IN  /\ actions' = [actions EXCEPT ![p] = @ \o rows]
        /\ history' = [history EXCEPT ![p] = @ \o hist]
        /\ securityLog' = log_security_event(securityLog, verdict.event)
        /\ execLog' = IF accepted
                      THEN execLog \cup {ExecEntry(action, verdict, count, Len(rows))}
                      ELSE execLog
        /\ tasks' = [tasks EXCEPT
              ![t].context = local.context,
              ![t].matched = local.matched,
              ![t].pending = local.pending,
              ![t].consulted = local.consulted,
              ![t].results = IF accepted /\ result.status # "raised"
                             THEN @ \o << result @@ [plant_id |-> p,
                                                     rule_id |-> Get(action, "rule_id", None)] >>
                             ELSE @,
              ![t].log = @ \o << [plant_id |-> p,
                                  rule_id |-> Get(action, "rule_id", None),
                                  action_type |-> Get(action, "type", ""),
                                  source |-> action.source,
                                  is_valid |-> verdict.is_valid,
                                  reason |-> verdict.reason,
                                  count |-> count,
                                  rows |-> Len(actions'[p]) - Len(actions[p]),
                                  hist |-> Len(history'[p]) - Len(history[p]),
                                  events |-> TotalEvents(securityLog')
                                             - TotalEvents(securityLog)] >>,
              ![t].read = << >>,
              ![t].pc = CASE accepted /\ result.status = "raised" -> "raised"
                          [] accepted /\ result.status # "raised" -> local.pc
                          [] OTHER -> pc_after_reject]

\* on the event loop no await lies between validate_action and execute
ValidateAndExecute(t, p, action, fault, local) ==
    ExecuteValidated(t, p, action, fault, local,
                     validate_action(action, p), get_today_actions_count(p))

\* get_active_plants: the active plants, in the order of their ids
RECURSIVE InOrder(_)
InOrder(ids) ==
    IF ids = {} THEN << >>
    ELSE LET first == CHOOSE p \in ids : \A q \in ids : p = q \/ PlantOrder[p] < PlantOrder[q]
         IN  << first >> \o InOrder(ids \ {first})

get_active_plants == InOrder({p \in PlantIds : plants[p].is_active})

\* run_cycle up to its first plant
StartSweep(t) ==
    /\ ~Busy
    /\ tasks[t].pc = "idle"
    /\ used.requests < used.limit
    /\ used' = [used EXCEPT !.requests = @ + 1]
    /\ LET q == get_active_plants
       IN  tasks' = [tasks EXCEPT ![t] =
                      IF q = << >> THEN IdleTask
                      ELSE [IdleTask EXCEPT !.pc = "begin", !.kind = "sweep", !.queue = q,
                                            !.plan = q]]
    /\ UNCHANGED << plants, actions, history, now, settings, knowledge, ruleDocs,
                    rules, securityLog, execLog, probe, weatherCache >>

\* trigger_agent_cycle: POST /{plant_id}/trigger
StartTrigger(t, p) ==
    /\ ~Busy
    /\ tasks[t].pc = "idle"
    /\ used.requests < used.limit
    /\ used' = [used EXCEPT !.requests = @ + 1]
    /\ tasks' = [tasks EXCEPT ![t] =
                    [IdleTask EXCEPT !.pc = "begin", !.kind = "trigger", !.queue = << p >>,
                                     !.plan = << p >>]]
    /\ UNCHANGED << plants, actions, history, now, settings, knowledge, ruleDocs,
                    rules, securityLog, execLog, probe, weatherCache >>

reloaded_never(plant, stored) == plant

\* `plant = self.memory.get_plant(plant_id)` after the state change
reloaded(plant, stored) == stored

state_change_unrecorded(plant, new_state) == << >>

\* what add_history appends for a transition of `plant` to new_state
state_change(plant, new_state) ==
    << [event_type |-> "state_change",
        from_state |-> plant.current_state,
        to_state |-> new_state,
        days_in_previous_state |-> get_days_in_current_state(plant)] >>

is_skipped_when_missing(plant_id) == plant_id \notin PlantIds

\* `if not plant or not plant.is_active: return []`
is_skipped(plant_id) == plant_id \notin PlantIds \/ ~plants[plant_id].is_active

\* run_single_plant up to the weather fetch: load, transition, reload
Begin(t) ==
    /\ tasks[t].pc = "begin"
    /\ LET p == Head(tasks[t].queue)
           plant == plants[p]
           new_state == should_transition(plant)
       IN  IF is_skipped(p)
           THEN /\ tasks' = [tasks EXCEPT ![t].pc = "done",
                                          ![t].calls = @ \o << p >>]
                /\ UNCHANGED << plants, history >>
           ELSE /\ IF new_state # None
                   THEN /\ plants' = [plants EXCEPT ![p].current_state = new_state,
                                                    ![p].state_changed_at = now]
                        /\ history' = [history EXCEPT ![p] = @ \o
                                                     state_change(plant, new_state)]
                   ELSE UNCHANGED << plants, history >>
                /\ tasks' = [tasks EXCEPT ![t].pc = IF get_cached_weather # {}
                                                     THEN "cached" ELSE "weather",
                                          ![t].calls = @ \o << p >>,
                                          ![t].new_state = new_state,
                                          ![t].plant = IF new_state # None
                                                       THEN reloaded(plant, plants'[p])
                                                       ELSE plant]
    /\ UNCHANGED << actions, now, settings, knowledge, ruleDocs, rules, securityLog,
                    execLog, used, probe, weatherCache >>

\* `elif self.llm and self.settings.llm_enabled` after `if actions`
consults_suggester_whenever_enabled(matched) == settings.llm_enabled

consults_suggester(matched) == matched = << >> /\ settings.llm_enabled

\* the weather arrives: build the context, evaluate the rules, and branch.
\* An exception that leaves evaluate leaves run_single_plant
Weather(t) ==
    /\ \/ tasks[t].pc = "cached"
       \/ tasks[t].pc = "weather" /\ (tasks[t].kind = "thread" \/ ~Busy)
    /\ \E got \in get_weather_results :
        LET p == Head(tasks[t].queue)
            context == build_context(p, tasks[t].plant, got.weather)
            evaluated == evaluate(context)
            matched == evaluated.matched
            local == [context |-> context, matched |-> matched, pending |-> << >>,
                      consulted |-> 0, pc |-> "done"]
        IN  /\ weatherCache' = got.cache
            /\ \/ /\ evaluated.raised
                  /\ tasks' = [tasks EXCEPT ![t].pc = "raised", ![t].context = context]
                  /\ UNCHANGED << actions, history, securityLog, execLog >>
               \/ /\ ~evaluated.raised
                  /\ matched # << >>
                  /\ tasks' = [tasks EXCEPT ![t].pc = "loop", ![t].context = context,
                                            ![t].matched = matched,
                                            ![t].pending = matched]
                  /\ UNCHANGED << actions, history, securityLog, execLog >>
               \/ /\ ~evaluated.raised
                  /\ consults_suggester(matched)
                  /\ \E suggestion \in Suggestions :
                       IF suggestion = << >>
                       THEN /\ tasks' = [tasks EXCEPT ![t].pc = "done",
                                                      ![t].context = context,
                                                      ![t].matched = matched,
                                                      ![t].consulted = 1]
                            /\ UNCHANGED << actions, history, securityLog, execLog >>
                       ELSE ValidateAndExecute(t, p, with_source(suggestion, "llm"),
                                               description_fault(suggestion),
                                               [local EXCEPT !.consulted = 1])
               \/ /\ ~evaluated.raised
                  /\ matched = << >>
                  /\ ~settings.llm_enabled
                  /\ history' = [history EXCEPT ![p] = @ \o
                                   << [event_type |-> "cycle", message |-> "No action needed"] >>]
                  /\ tasks' = [tasks EXCEPT ![t].pc = "done", ![t].context = context,
                                            ![t].matched = matched]
                  /\ UNCHANGED << actions, securityLog, execLog >>
    /\ UNCHANGED << plants, now, settings, knowledge, ruleDocs, rules, used, probe >>

\* one turn of the loop over the matched actions
LoopStep(t) ==
    /\ tasks[t].pc = "loop"
    /\ tasks[t].kind # "thread"
    /\ tasks[t].pending # << >>
    /\ LET p == Head(tasks[t].queue)
           action == with_source(Head(tasks[t].pending), "rules")
           notifies == action.type \in {"alert", "notify"} /\ settings.notification_enabled
       IN  /\ ValidateAndExecute(t, p, action, description_fault(action),
                              [context |-> tasks[t].context,
                               matched |-> tasks[t].matched,
                               pending |-> Tail(tasks[t].pending),
                               consulted |-> tasks[t].consulted,
                               pc |-> IF notifies THEN "notify" ELSE "loop"])
           /\ rules' = rules_after_write(action)
    /\ UNCHANGED << plants, now, settings, knowledge, ruleDocs, used, probe,
                    weatherCache >>

\* the awaited notification.send returns, delivered or not; when every
\* channel failed it logs message[:50], which raises for a message that is
\* no string
Notified(t) ==
    /\ tasks[t].kind = "thread" \/ ~Busy
    /\ tasks[t].pc = "notify"
    /\ \E delivered \in BOOLEAN :
          LET action == tasks[t].matched[Len(tasks[t].matched) - Len(tasks[t].pending)]
              message == Get(action, "description", Str(""))
          IN  tasks' = [tasks EXCEPT ![t].pc = IF ~delivered /\ message.k = "num"
                                               THEN "raised" ELSE "loop"]
    /\ UNCHANGED << plants, actions, history, now, settings, knowledge, ruleDocs,
                    rules, securityLog, execLog, used, probe, weatherCache >>

\* the loop is through: run_single_plant returns its results
LoopEnd(t) ==
    /\ tasks[t].pc = "loop"
    /\ tasks[t].pending = << >>
    /\ tasks' = [tasks EXCEPT ![t].pc = "done"]
    /\ UNCHANGED << plants, actions, history, now, settings, knowledge, ruleDocs,
                    rules, securityLog, execLog, used, probe, weatherCache >>

next_queue_abort(queue, raised) == IF raised THEN << >> ELSE Tail(queue)

\* `for plant in plants: try: ... except Exception: logger.error(...)`
next_queue(queue, raised) == Tail(queue)

\* what run_cycle returns once the cycle of its last plant is over
returned(task) ==
    task.all_results \o (IF task.pc = "raised" THEN << >> ELSE task.results)

\* run_single_plant is over: the sweep extends all_results, or logs the
\* exception, and goes on to its next plant; the trigger request answers
Return(t) ==
    /\ tasks[t].pc \in {"done", "raised"}
    /\ LET raised == tasks[t].pc = "raised"
           rest == next_queue(tasks[t].queue, raised)
       IN  tasks' = [tasks EXCEPT ![t] =
              IF rest = << >> THEN IdleTask
              ELSE [IdleTask EXCEPT
                      !.pc = "begin", !.kind = tasks[t].kind, !.queue = rest,
                      !.plan = tasks[t].plan, !.calls = tasks[t].calls,
                      !.all_results = returned(tasks[t]),
                      !.failed = tasks[t].failed
                                 \cup (IF raised THEN {Head(tasks[t].queue)} ELSE {})]]
    /\ UNCHANGED << plants, actions, history, now, settings, knowledge, ruleDocs,
                    rules, securityLog, execLog, used, probe, weatherCache >>

\* human_override: POST /{plant_id}/override
Override(p, body) ==
    /\ ~Busy
    /\ used.requests < used.limit
    /\ LET action == [type |-> body.action_type, description |-> body.description,
                      source |-> "manual",
                      amount_ml |-> body.amount_ml, amount_grams |-> body.amount_grams]
           verdict == validate_action(action, p)
           count == get_today_actions_count(p)
           accepted == override_accepts(verdict)
           fault == description_fault(action)
           rows == IF accepted THEN execute_rows(p, action, fault) ELSE << >>
           hist == IF accepted THEN execute_history(p, action, fault) ELSE << >>
       IN  /\ securityLog' = log_security_event(securityLog, verdict.event)
           /\ used' = [used EXCEPT !.requests = @ + 1]
           /\ actions' = [actions EXCEPT ![p] = @ \o rows]
           /\ history' = [history EXCEPT ![p] = @ \o hist]
           /\ execLog' = IF accepted
                         THEN execLog \cup {ExecEntry(action, verdict, count, Len(rows))}
                         ELSE execLog
           /\ probe' = [op |-> "override", plant_id |-> p, action |-> action,
                        count |-> count, accepted |-> accepted,
                        rows |-> Len(rows), hist |-> Len(hist)]
    /\ UNCHANGED << plants, now, settings, knowledge, ruleDocs, rules, tasks,
                    weatherCache >>

\* half a day passes (no cycle is in progress: a cycle takes seconds)
Tick ==
    /\ \A t \in Tasks : tasks[t].pc = "idle"
    /\ now < MaxNow
    /\ now' = now + 1
    /\ UNCHANGED << plants, actions, history, settings, knowledge, ruleDocs, rules,
                    securityLog, execLog, tasks, used, probe, weatherCache >>

----------------------------------------------------------------------------
(* The cycle specification: sweeps, manual triggers, overrides, time *)

EmptyLog == [e \in SecurityEvents |-> 0]

PlantRow(plant_type, state) ==
    [plant_type |-> plant_type, current_state |-> state, state_changed_at |-> 0,
     plant_date |-> 0, is_active |-> TRUE]

\* the plants tables a behaviour starts from
Farms ==
    {("p1" :> PlantRow("chili", "dead")) @@ ("p2" :> PlantRow("spinach", "vegetative"))}

Init ==
    /\ plants \in Farms
    /\ actions = [p \in PlantIds |-> << >>]
    /\ history = [p \in PlantIds |-> << >>]
    /\ now = 0
    /\ settings \in [max_daily_actions : {1, 2},
                      max_watering_amount_ml : {500},
                      max_fertilizer_grams : {20},
                      llm_enabled : BOOLEAN,
                      notification_enabled : {TRUE}]
    /\ knowledge = CycleKnowledge
    /\ ruleDocs = CycleRuleDocs
    /\ rules = load_rules(ruleDocs)
    /\ securityLog = EmptyLog
    /\ execLog = {}
    /\ tasks = [t \in {"t1"} |-> IdleTask]
    /\ used = [requests |-> 0, limit |-> MaxRequests]
    /\ probe = [op |-> "none"]
    /\ weatherCache = NoCache

Next ==
    \/ \E t \in Tasks : StartSweep(t)
    \/ \E t \in Tasks, p \in PlantIds : StartTrigger(t, p)
    \/ \E t \in Tasks : Begin(t)
    \/ \E t \in Tasks : Weather(t)
    \/ \E t \in Tasks : LoopStep(t)
    \/ \E t \in Tasks : Notified(t)
    \/ \E t \in Tasks : LoopEnd(t)
    \/ \E t \in Tasks : Return(t)
    \/ \E p \in PlantIds, body \in OverrideBodies : Override(p, body)
    \/ Tick

Spec == Init /\ [][Next]_vars

----------------------------------------------------------------------------
(* Direct calls: each specification below draws the inputs of one component *)
(* in its initial state and calls the component's operations on them.       *)

Restrict(f, keys) == [k \in keys |-> f[k]]

\* a plants table of one plant and an actions table of n rows written today
OnePlant(row) == ("p1" :> row)
RowsToday(n) ==
    [i \in 1..n |-> [action_type |-> "log", source |-> "rules",
                     status |-> "executed", created_at |-> now]]

QuietSettings ==
    [max_daily_actions |-> 2, max_watering_amount_ml |-> 500,
     max_fertilizer_grams |-> 20, llm_enabled |-> FALSE, notification_enabled |-> FALSE]

\* what every direct-call specification starts from, apart from its inputs
DirectInit ==
    /\ history = [p \in PlantIds |-> << >>]
    /\ ruleDocs = CycleRuleDocs
    /\ rules = load_rules(ruleDocs)
    /\ securityLog = EmptyLog
    /\ execLog = {}
    /\ tasks = [t \in {"t1"} |-> IdleTask]
    /\ used = [requests |-> 0, limit |-> MaxRequests]
    /\ probe = [op |-> "none"]
    /\ weatherCache = NoCache

----------------------------------------------------------------------------
(* The executor specification: ToolExecutor.execute called directly *)

ExecActions ==
    LET full == [type : {"water", "prune"}, source : {"rules", "llm", "manual"},
                 description : {Str("water the bed"), Num(12345), Null}]
        keysets == {{"type", "source", "description"}, {"type", "source"}, {"description"}}
    IN  {Restrict(a, keys) : a \in full, keys \in keysets}

\* the faults of the environment: the description's fault shows when no
\* earlier statement of the try block raised
EnvFaults == ExecFaults \ {"log"}
effective_fault(action, env) == IF env # "none" THEN env ELSE description_fault(action)

InitExec ==
    /\ plants = OnePlant(PlantRow("chili", "vegetative"))
    /\ now = 0
    /\ \E n \in 0..MaxProbeCount : actions = [p \in PlantIds |-> RowsToday(n)]
    /\ settings = QuietSettings
    /\ knowledge = CycleKnowledge
    /\ DirectInit

Execute(p, action, env) ==
    /\ probe.op = "none"
    /\ LET fault == effective_fault(action, env)
       IN  /\ actions' = [actions EXCEPT ![p] = @ \o execute_rows(p, action, fault)]
           /\ history' = [history EXCEPT ![p] = @ \o execute_history(p, action, fault)]
           /\ probe' = [op |-> "execute", plant_id |-> p, action |-> action,
                        fault |-> fault,
                        rows |-> Len(actions'[p]) - Len(actions[p]),
                        hist |-> Len(history'[p]) - Len(history[p]),
                        result |-> execute_result(p, action, fault)]
    /\ UNCHANGED << plants, now, settings, knowledge, ruleDocs, rules, securityLog,
                    execLog, tasks, used, weatherCache >>

NextExec == \E p \in PlantIds, action \in ExecActions, env \in EnvFaults : Execute(p, action, env)

SpecExec == InitExec /\ [][NextExec]_vars

----------------------------------------------------------------------------
(* The guard specification: SecurityGuard.validate_action called directly *)

GuardActions ==
    LET full == [type : {"water", "fertilize", "log", "spray"},
                 source : {"rules", "llm", "manual"},
                 amount_ml : {Num(501), Num(2000), Num(2001), Num(3001), Null},
                 amount_grams : {Num(20), Num(21), Num(51), Null}]
        keysets == {{"type", "source", "amount_ml", "amount_grams"},
                    {"type", "source", "amount_ml"},
                    {"type", "source", "amount_grams"},
                    {"type", "source"}}
    IN  {Restrict(a, keys) : a \in full, keys \in keysets}

InitGuard ==
    /\ plants = OnePlant(PlantRow("chili", "vegetative"))
    /\ now = 0
    /\ \E n \in 0..MaxProbeCount : actions = [p \in PlantIds |-> RowsToday(n)]
    /\ settings \in [max_daily_actions : {1, 2},
                      max_watering_amount_ml : {500, 3000},
                      max_fertilizer_grams : {20, 50},
                      llm_enabled : {FALSE},
                      notification_enabled : {FALSE}]
    /\ knowledge = CycleKnowledge
    /\ DirectInit

Validate(p, action) ==
    /\ probe.op = "none"
    /\ LET verdict == IF validate_action_raises(action, p)
                      THEN [is_valid |-> FALSE, reason |-> "raised", event |-> "none"]
                      ELSE validate_action(action, p)
       IN  /\ securityLog' = log_security_event(securityLog, verdict.event)
           /\ probe' = [op |-> "validate_action", plant_id |-> p, action |-> action,
                        count |-> get_today_actions_count(p),
                        is_valid |-> verdict.is_valid, reason |-> verdict.reason,
                        events |-> TotalEvents(securityLog') - TotalEvents(securityLog)]
    /\ UNCHANGED << plants, actions, history, now, settings, knowledge, ruleDocs, rules,
                    execLog, tasks, used, weatherCache >>

NextGuard == \E p \in PlantIds, action \in GuardActions : Validate(p, action)

SpecGuard == InitGuard /\ [][NextGuard]_vars

----------------------------------------------------------------------------
(* The rules specification: RulesEngine.evaluate called directly *)

RuleLog ==
    [id |-> "log_day", priority |-> 10,
     conditions |-> << [field |-> "growing_method", operator |-> "eq", value |-> Str("soil")] >>,
     action |-> [type |-> "log"]]

\* a rule with an empty condition list, and one without the key
RuleNoConditions ==
    [id |-> "no_conditions", priority |-> 50, conditions |-> << >>,
     action |-> [type |-> "log"]]
RuleBare ==
    [id |-> "bare", priority |-> 50, action |-> [type |-> "log"]]

RulePool == {RuleWater, RuleFlood, RuleSpray, RuleAlert, RuleNoSensor, RuleNotIn, RuleLog,
             RuleNoConditions, RuleBare}

\* the sequences of at most n different rules
RECURSIVE RuleSeqs(_, _)
RuleSeqs(pool, n) ==
    IF n = 0 THEN {<< >>}
    ELSE LET shorter == RuleSeqs(pool, n - 1)
         IN  shorter \cup
             {q \o << r >> : q \in {x \in shorter : Len(x) = n - 1},
                             r \in pool}

NoRepeats(q) == \A i, j \in DOMAIN q : i # j => q[i].id # q[j].id
RuleIds(q) == {q[i].id : i \in DOMAIN q}

\* the rules the documents of a direct evaluation are written from
DocRules == {RuleWater, RuleFlood, RuleSpray, RuleNoSensor, RuleLog}

\* two rule documents: no rule id occurs twice
RuleDocSets ==
    {(1 :> [readable |-> TRUE, rules |-> a]) @@ (2 :> [readable |-> TRUE, rules |-> b]) :
        a \in {q \in RuleSeqs(DocRules, MaxRulesPerDoc) : NoRepeats(q)},
        b \in {q \in RuleSeqs(DocRules, MaxRulesPerDoc) : NoRepeats(q)}}

DisjointDocs(docs) == RuleIds(docs[1].rules) \cap RuleIds(docs[2].rules) = {}

\* the contexts _build_context yields for a plant never watered, by plant
\* type, state and rainfall
context_of(plant_type, plant_state, rainfall_mm) ==
    [plant_type |-> Str(plant_type),
     plant_state |-> Str(plant_state),
     days_since_planting |-> Num(3),
     days_in_state |-> Num(1),
     days_since_last_water |-> Num(9999),
     days_since_last_fertilize |-> Num(9999),
     today_rainfall_mm |-> Num(rainfall_mm),
     temp_max |-> Num(28),
     temp_min |-> Num(22),
     humidity |-> Num(70),
     growing_method |-> Str("soil"),
     soil_condition |-> Str("loamy")]

ProbeContexts ==
    {context_of("spinach", "vegetative", 0), context_of("spinach", "vegetative", 10),
     context_of("chili", "harvest", 0), context_of("chili", "seed", 10)}

InitRules ==
    /\ plants = OnePlant(PlantRow("chili", "vegetative"))
    /\ now = 0
    /\ actions = [p \in PlantIds |-> << >>]
    /\ settings = QuietSettings
    /\ knowledge = CycleKnowledge
    /\ history = [p \in PlantIds |-> << >>]
    /\ ruleDocs \in {docs \in RuleDocSets : DisjointDocs(docs)}
    /\ rules = load_rules(ruleDocs)
    /\ securityLog = EmptyLog
    /\ execLog = {}
    /\ tasks = [t \in {"t1"} |-> IdleTask]
    /\ used = [requests |-> 0, limit |-> MaxRequests]
    /\ probe = [op |-> "none", calls |-> 0, seen |-> {}]
    /\ weatherCache = NoCache

Evaluate(context) ==
    /\ probe.calls < MaxEvaluations
    /\ LET result == evaluate(context)
       IN  probe' = [op |-> "evaluate", calls |-> probe.calls + 1,
                     context |-> context, result |-> result,
                     seen |-> probe.seen \cup {[context |-> context, result |-> result]}]
    /\ UNCHANGED << plants, actions, history, now, settings, knowledge, ruleDocs, rules,
                    securityLog, execLog, tasks, used, weatherCache >>

NextRules == \E context \in ProbeContexts : Evaluate(context)

SpecRules == InitRules /\ [][NextRules]_vars

----------------------------------------------------------------------------
(* The mistyped-rules specification: RulesEngine.evaluate called directly on *)
(* rule documents whose conditions do not fit the context                    *)

\* an operator _check_condition does not know
RuleUnknownOperator ==
    [id |-> "between_days", priority |-> 30,
     conditions |-> << [field |-> "days_in_state", operator |-> "between", value |-> Num(1)] >>,
     action |-> [type |-> "log"]]
\* an ordering of the context's string against a number
RuleOrderStr ==
    [id |-> "late_stage", priority |-> 40,
     conditions |-> << [field |-> "plant_type", operator |-> "eq", value |-> Str("chili")],
                       [field |-> "plant_state", operator |-> "gte", value |-> Num(3)] >>,
     action |-> [type |-> "alert"]]
\* a membership test against a scalar
RuleScalarIn ==
    [id |-> "rain_in", priority |-> 60,
     conditions |-> << [field |-> "today_rainfall_mm", operator |-> "in", value |-> Num(10)] >>,
     action |-> [type |-> "skip_water"]]

InitMistyped ==
    /\ plants = OnePlant(PlantRow("chili", "vegetative"))
    /\ now = 0
    /\ actions = [p \in PlantIds |-> << >>]
    /\ settings = QuietSettings
    /\ knowledge = CycleKnowledge
    /\ history = [p \in PlantIds |-> << >>]
    /\ \E a, b \in {q \in RuleSeqs({RuleUnknownOperator, RuleOrderStr, RuleScalarIn, RuleLog},
                                    MaxRulesPerDoc) : NoRepeats(q)} :
          /\ ruleDocs = (1 :> [readable |-> TRUE, rules |-> a])
                        @@ (2 :> [readable |-> TRUE, rules |-> b])
          /\ DisjointDocs(ruleDocs)
    /\ rules = load_rules(ruleDocs)
    /\ securityLog = EmptyLog
    /\ execLog = {}
    /\ tasks = [t \in {"t1"} |-> IdleTask]
    /\ used = [requests |-> 0, limit |-> MaxRequests]
    /\ probe = [op |-> "none", calls |-> 0, seen |-> {}]
    /\ weatherCache = NoCache

SpecMistyped == InitMistyped /\ [][NextRules]_vars

----------------------------------------------------------------------------
(* The condition specification: _check_condition and _check_rule called *)
(* directly                                                              *)

Operators == {"eq", "neq", "gt", "gte", "lt", "lte", "in", "not_in", "contains", "between"}

ProbeConditions ==
    [field : {"soil_moisture", "pest", "plant_state", "days_in_state"},
     operator : Operators,
     value : {Str("wet"), Num(1), Lst({Str("wet"), Str("vegetative")})}]

InitCondition ==
    /\ plants = OnePlant(PlantRow("chili", "vegetative"))
    /\ now = 0
    /\ actions = [p \in PlantIds |-> << >>]
    /\ settings = QuietSettings
    /\ knowledge = CycleKnowledge
    /\ DirectInit

CheckCondition(condition, context) ==
    /\ probe.op = "none"
    /\ probe' = [op |-> "check_condition", condition |-> condition,
                 context |-> context, result |-> check_condition(condition, context)]
    /\ UNCHANGED << plants, actions, history, now, settings, knowledge, ruleDocs, rules,
                    securityLog, execLog, tasks, used, weatherCache >>

CheckRule(rule, context) ==
    /\ probe.op = "none"
    /\ probe' = [op |-> "check_rule", rule |-> rule,
                 context |-> context, result |-> check_rule(rule, context)]
    /\ UNCHANGED << plants, actions, history, now, settings, knowledge, ruleDocs, rules,
                    securityLog, execLog, tasks, used, weatherCache >>

NextCondition ==
    \/ \E condition \in ProbeConditions, context \in ProbeContexts :
          CheckCondition(condition, context)
    \/ \E rule \in RulePool, context \in ProbeContexts : CheckRule(rule, context)

SpecCondition == InitCondition /\ [][NextCondition]_vars

----------------------------------------------------------------------------
(* The state-engine specification: StateEngine.should_transition called *)
(* directly                                                             *)

\* knowledge documents of the direct calls: chili with every stage, spinach
\* without a flowering stage; no document for any other plant type
ProbeKnowledge(d) ==
    [t \in {"chili", "spinach"} |->
        IF t = "chili" THEN StageList(d)
        ELSE SelectSeq(StageList(d), LAMBDA stage : stage.name # "flowering")]

InitState ==
    /\ \E plant_type \in {"chili", "spinach", "orchid"}, st \in PlantState,
          changed \in {0, 3} :
          plants = OnePlant([PlantRow(plant_type, st) EXCEPT !.state_changed_at = changed])
    /\ now \in 0..MaxProbeNow
    /\ actions = [p \in PlantIds |-> << >>]
    /\ settings = QuietSettings
    /\ knowledge \in {ProbeKnowledge(<< 1, 2 >>), ProbeKnowledge(<< 3, 5 >>)}
    /\ DirectInit

ShouldTransition(p) ==
    /\ probe.op = "none"
    /\ probe' = [op |-> "should_transition", plant |-> plants[p],
                 days |-> get_days_in_current_state(plants[p]),
                 result |-> should_transition(plants[p])]
    /\ UNCHANGED << plants, actions, history, now, settings, knowledge, ruleDocs, rules,
                    securityLog, execLog, tasks, used, weatherCache >>

GetNextState(p) ==
    /\ probe.op = "none"
    /\ probe' = [op |-> "get_next_state", plant |-> plants[p],
                 days |-> get_days_in_current_state(plants[p]),
                 result |-> get_next_state(plants[p])]
    /\ UNCHANGED << plants, actions, history, now, settings, knowledge, ruleDocs, rules,
                    securityLog, execLog, tasks, used, weatherCache >>

NextState ==
    \/ \E p \in PlantIds : ShouldTransition(p)
    \/ \E p \in PlantIds : GetNextState(p)

SpecState == InitState /\ [][NextState]_vars

----------------------------------------------------------------------------
(* The lifecycle specification: one plant sown as seed, taken through sweeps *)
(* and manual triggers; the rules directory holds no rule                    *)

InitLife ==
    /\ \E plant_type \in {"chili", "spinach", "lettuce", "hydroponic"} :
          plants = OnePlant(PlantRow(plant_type, "seed"))
    /\ actions = [p \in PlantIds |-> << >>]
    /\ history = [p \in PlantIds |-> << >>]
    /\ now = 0
    /\ settings = QuietSettings
    \* knowledge documents that name every stage for every plant type, all
    \* stages with the same duration; one rule document without a "rules" key
    /\ \E d \in {<< 0, 0 >>, << 0, 1 >>} :
          knowledge = [t \in {"chili", "spinach", "lettuce", "hydroponic"} |-> StageList(d)]
    /\ ruleDocs = (1 :> [readable |-> TRUE])
    /\ rules = load_rules(ruleDocs)
    /\ securityLog = EmptyLog
    /\ execLog = {}
    /\ tasks = [t \in {"t1"} |-> IdleTask]
    /\ used = [requests |-> 0, limit |-> MaxLifeCycles]
    /\ probe = [op |-> "none"]
    /\ weatherCache = NoCache

NextLife ==
    \/ \E t \in Tasks : StartSweep(t)
    \/ \E t \in Tasks, p \in PlantIds : StartTrigger(t, p)
    \/ \E t \in Tasks : Begin(t)
    \/ \E t \in Tasks : Weather(t)
    \/ \E t \in Tasks : Return(t)
    \/ Tick

SpecLife == InitLife /\ [][NextLife]_vars

----------------------------------------------------------------------------
(* The sweep specification: one run_cycle over three plants, with a rule     *)
(* whose evaluation raises for chili and a rule whose action the actions     *)
(* table refuses for lettuce                                                 *)

\* a rule whose action has a null description
RuleUndescribed ==
    [id |-> "undescribed", priority |-> 5,
     conditions |-> << [field |-> "plant_type", operator |-> "eq", value |-> Str("lettuce")] >>,
     action |-> [type |-> "log", description |-> Null]]

InitSweep ==
    /\ plants \in [{"p1", "p2", "p3"} ->
                     {[PlantRow(plant_type, "vegetative") EXCEPT !.is_active = active] :
                         plant_type \in {"spinach", "chili", "lettuce"},
                         active \in BOOLEAN}]
    /\ actions = [p \in PlantIds |-> << >>]
    /\ history = [p \in PlantIds |-> << >>]
    /\ now = 0
    /\ settings = [QuietSettings EXCEPT !.max_daily_actions = 3]
    /\ knowledge = CycleKnowledge
    /\ ruleDocs = (1 :> [readable |-> TRUE, rules |-> << RuleWater, RuleOrderStr >>])
                  @@ (2 :> [readable |-> TRUE, rules |-> << RuleLog, RuleUndescribed >>])
    /\ rules = load_rules(ruleDocs)
    /\ securityLog = EmptyLog
    /\ execLog = {}
    /\ tasks = [t \in {"t1"} |-> IdleTask]
    /\ used = [requests |-> 0, limit |-> 1]
    /\ probe = [op |-> "none"]
    /\ weatherCache = NoCache

NextSweep ==
    \/ \E t \in Tasks : StartSweep(t)
    \/ \E t \in Tasks : Begin(t)
    \/ \E t \in Tasks : Weather(t)
    \/ \E t \in Tasks : LoopStep(t)
    \/ \E t \in Tasks : LoopEnd(t)
    \/ \E t \in Tasks : Return(t)

SpecSweep == InitSweep /\ [][NextSweep]_vars

----------------------------------------------------------------------------
(* The threads specification: cycles for one plant on the event loop (manual *)
(* triggers) and in threads of the scheduler, which calls                    *)
(* asyncio.run(self.agent.run_cycle()) when it holds no running loop. Between *)
(* threads every call of the memory is a step of its own; on the event loop *)
(* the cycles interleave at the weather fetch and at the notification sends  *)

\* _run_async_cycle, its else branch: run_cycle up to its first plant
StartThreadSweep(t) ==
    /\ tasks[t].pc = "idle"
    /\ used.requests < used.limit
    /\ used' = [used EXCEPT !.requests = @ + 1]
    /\ LET q == get_active_plants
       IN  tasks' = [tasks EXCEPT ![t] =
                      IF q = << >> THEN IdleTask
                      ELSE [IdleTask EXCEPT !.pc = "begin", !.kind = "thread", !.queue = q,
                                            !.plan = q]]
    /\ UNCHANGED << plants, actions, history, now, settings, knowledge, ruleDocs,
                    rules, securityLog, execLog, probe, weatherCache >>

\* one turn of the loop in a thread, up to the answer of validate_action: a
\* rejection ends the turn, an acceptance leaves the thread before execute
ThreadValidate(t) ==
    /\ tasks[t].pc = "loop"
    /\ tasks[t].kind = "thread"
    /\ tasks[t].pending # << >>
    /\ LET p == Head(tasks[t].queue)
           action == with_source(Head(tasks[t].pending), "rules")
           verdict == validate_action(action, p)
           count == get_today_actions_count(p)
       IN  IF cycle_accepts(verdict)
           THEN /\ tasks' = [tasks EXCEPT ![t].pc = "validated",
                                          ![t].read = [verdict |-> verdict, count |-> count]]
                /\ UNCHANGED << actions, history, securityLog, execLog >>
           ELSE ExecuteValidated(t, p, action, description_fault(action),
                                 [context |-> tasks[t].context,
                                  matched |-> tasks[t].matched,
                                  pending |-> Tail(tasks[t].pending),
                                  consulted |-> tasks[t].consulted,
                                  pc |-> "loop"],
                                 verdict, count)
    /\ UNCHANGED << plants, now, settings, knowledge, ruleDocs, rules, used, probe,
                    weatherCache >>

\* the rest of the turn: execute, with the verdict the thread holds
ThreadExecute(t) ==
    /\ tasks[t].pc = "validated"
    /\ LET p == Head(tasks[t].queue)
           action == with_source(Head(tasks[t].pending), "rules")
           notifies == action.type \in {"alert", "notify"} /\ settings.notification_enabled
       IN  ExecuteValidated(t, p, action, description_fault(action),
                            [context |-> tasks[t].context,
                             matched |-> tasks[t].matched,
                             pending |-> Tail(tasks[t].pending),
                             consulted |-> tasks[t].consulted,
                             pc |-> IF notifies THEN "notify" ELSE "loop"],
                            tasks[t].read.verdict, tasks[t].read.count)
    /\ UNCHANGED << plants, now, settings, knowledge, ruleDocs, rules, used, probe,
                    weatherCache >>

InitRace ==
    /\ plants = OnePlant(PlantRow("spinach", "vegetative"))
    /\ now = 0
    /\ actions = [p \in PlantIds |-> << >>]
    /\ history = [p \in PlantIds |-> << >>]
    /\ settings \in {[QuietSettings EXCEPT !.max_daily_actions = n,
                                            !.notification_enabled = enabled] :
                        n \in {1, 4}, enabled \in BOOLEAN}
    /\ knowledge = CycleKnowledge
    \* the water rule, and an alert of higher priority for the same plant
    /\ ruleDocs = (1 :> [readable |-> TRUE, rules |->
          << RuleWater,
             [id |-> "growth_alert", priority |-> 90,
              conditions |-> RuleFlood.conditions, action |-> [type |-> "alert"]] >>])
    /\ rules = load_rules(ruleDocs)
    /\ securityLog = EmptyLog
    /\ execLog = {}
    /\ tasks = [t \in {"t1", "t2"} |-> IdleTask]
    /\ used = [requests |-> 0, limit |-> MaxRequests]
    /\ probe = [op |-> "none"]
    /\ weatherCache = NoCache

NextRace ==
    \/ \E t \in Tasks, p \in PlantIds : StartTrigger(t, p)
    \/ \E t \in Tasks : StartThreadSweep(t)
    \/ \E t \in Tasks : Begin(t)
    \/ \E t \in Tasks : Weather(t)
    \/ \E t \in Tasks : LoopStep(t)
    \/ \E t \in Tasks : ThreadValidate(t)
    \/ \E t \in Tasks : ThreadExecute(t)
    \/ \E t \in Tasks : Notified(t)
    \/ \E t \in Tasks : LoopEnd(t)
    \/ \E t \in Tasks : Return(t)

SpecRace == InitRace /\ [][NextRace]_vars

----------------------------------------------------------------------------
(* The plants specification: cycles, direct calls of run_single_plant, the   *)
(* plant operations of the API (update, deactivate) and override requests,   *)
(* on one event loop                                                         *)

\* agent.run_single_plant(plant_id) called with any id
RunSinglePlant(t, plant_id) ==
    /\ ~Busy
    /\ tasks[t].pc = "idle"
    /\ used.requests < used.limit
    /\ used' = [used EXCEPT !.requests = @ + 1]
    /\ tasks' = [tasks EXCEPT ![t] =
                    [IdleTask EXCEPT !.pc = "begin", !.kind = "call",
                                     !.queue = << plant_id >>, !.plan = << plant_id >>]]
    /\ UNCHANGED << plants, actions, history, now, settings, knowledge, ruleDocs,
                    rules, securityLog, execLog, probe, weatherCache >>

\* update_plant: PUT /{plant_id}, the body with or without current_state
UpdatePlant(p, body) ==
    /\ ~Busy
    /\ used.requests < used.limit
    /\ used' = [used EXCEPT !.requests = @ + 1]
    /\ LET stated == "current_state" \in DOMAIN body
           refused == stated /\ body.current_state \notin PlantState
       IN  /\ plants' = IF refused \/ ~stated THEN plants
                        ELSE [plants EXCEPT ![p].current_state = body.current_state,
                                            ![p].state_changed_at = now]
           /\ probe' = [op |-> "update_plant", plant_id |-> p, body |-> body,
                        status |-> IF refused THEN 400 ELSE 200]
    /\ UNCHANGED << actions, history, now, settings, knowledge, ruleDocs, rules,
                    securityLog, execLog, tasks, weatherCache >>

\* deactivate_plant: DELETE /{plant_id}
DeactivatePlant(p) ==
    /\ ~Busy
    /\ used.requests < used.limit
    /\ used' = [used EXCEPT !.requests = @ + 1]
    /\ plants' = [plants EXCEPT ![p].is_active = FALSE]
    /\ probe' = [op |-> "deactivate_plant", plant_id |-> p]
    /\ UNCHANGED << actions, history, now, settings, knowledge, ruleDocs, rules,
                    securityLog, execLog, tasks, weatherCache >>

InitPlants ==
    /\ plants = ("p1" :> PlantRow("spinach", "harvest"))
                @@ ("p2" :> PlantRow("chili", "vegetative"))
    /\ actions = [p \in PlantIds |-> << >>]
    /\ history = [p \in PlantIds |-> << >>]
    /\ now = 0
    /\ settings \in {[QuietSettings EXCEPT !.max_daily_actions = n,
                                            !.notification_enabled = enabled] :
                        n \in {1, 3}, enabled \in BOOLEAN}
    /\ \E d \in {<< 7, 14 >>, << 0, 0 >>} :
          knowledge = [t \in {"chili", "spinach"} |-> StageList(d)]
    \* rule documents: an alert whose description is a number and a notify
    \* for a plant in harvest, a log for every spinach
    /\ ruleDocs = (1 :> [readable |-> TRUE, rules |->
          << [RuleAlert EXCEPT !.action = [type |-> "alert", description |-> Num(12345)]],
             [id |-> "harvest_notify", priority |-> 60,
              conditions |-> RuleAlert.conditions, action |-> [type |-> "notify"]],
             [RuleSpray EXCEPT !.action = [type |-> "log"]] >>])
    /\ rules = load_rules(ruleDocs)
    /\ securityLog = EmptyLog
    /\ execLog = {}
    /\ tasks = [t \in {"t1"} |-> IdleTask]
    /\ used = [requests |-> 0, limit |-> MaxRequests]
    /\ probe = [op |-> "none"]
    /\ weatherCache = NoCache

NextPlants ==
    \/ \E t \in Tasks : StartSweep(t)
    \/ \E t \in Tasks, plant_id \in PlantIds \cup {"p9"} : RunSinglePlant(t, plant_id)
    \/ \E p \in PlantIds :
          \E body \in {[notes |-> "moved"]}
                      \cup {[current_state |-> st] : st \in {"seed", "harvest", "dead", "sprout"}} :
              UpdatePlant(p, body)
    \/ \E p \in PlantIds : DeactivatePlant(p)
    \/ \E p \in PlantIds, body \in OverrideBodies : Override(p, body)
    \/ \E t \in Tasks : Begin(t)
    \/ \E t \in Tasks : Weather(t)
    \/ \E t \in Tasks : LoopStep(t)
    \/ \E t \in Tasks : Notified(t)
    \/ \E t \in Tasks : LoopEnd(t)
    \/ \E t \in Tasks : Return(t)

SpecPlants == InitPlants /\ [][NextPlants]_vars

----------------------------------------------------------------------------
(* The loading specification: RulesEngine._load_rules called on a rules      *)
(* directory of three documents, well-formed or not                          *)

InitLoad ==
    /\ plants = OnePlant(PlantRow("chili", "vegetative"))
    /\ now = 0
    /\ actions = [p \in PlantIds |-> << >>]
    /\ settings = QuietSettings
    /\ knowledge = CycleKnowledge
    /\ history = [p \in PlantIds |-> << >>]
    \* a document: unreadable; without a "rules" key; with null under
    \* "rules"; a list of rules; a text under "rules"; a list with an entry
    \* that is a text; a rule whose priority is the text "high"
    /\ ruleDocs \in [{1, 2, 3} ->
          {[readable |-> FALSE],
           [readable |-> TRUE],
           [readable |-> TRUE, iterable |-> FALSE, rules |-> << >>],
           [readable |-> TRUE, rules |-> << RuleWater >>],
           [readable |-> TRUE, rules |-> << RuleLog, RuleFlood >>],
           [readable |-> TRUE, rules |-> << Str("a"), Str("b") >>],
           [readable |-> TRUE, rules |-> << RuleSpray, Str("water") >>],
           [readable |-> TRUE, rules |->
               << [id |-> "urgent", priority_text |-> "high",
                   conditions |-> RuleSpray.conditions, action |-> [type |-> "log"]] >>]}]
    \* RulesEngine.__init__ before its call of _load_rules
    /\ rules = << >>
    /\ securityLog = EmptyLog
    /\ execLog = {}
    /\ tasks = [t \in {"t1"} |-> IdleTask]
    /\ used = [requests |-> 0, limit |-> MaxRequests]
    /\ probe = [op |-> "none"]
    /\ weatherCache = NoCache

LoadRules ==
    /\ probe.op = "none"
    /\ LET raised == load_raises(ruleDocs)
       IN  /\ rules' = IF raised THEN rules ELSE load_rules(ruleDocs)
           /\ probe' = [op |-> "load_rules", raised |-> raised]
    /\ UNCHANGED << plants, actions, history, now, settings, knowledge, ruleDocs,
                    securityLog, execLog, tasks, used, weatherCache >>

SpecLoad == InitLoad /\ [][LoadRules]_vars

----------------------------------------------------------------------------
(* The growth specification: the scheduler's sweep runs once in every       *)
(* interval of half a day, for as long as the clock runs, over one plant    *)
(* whose stored state is seed or a string that is no state                  *)

InitGrow ==
    /\ \E plant_type \in {"chili", "spinach"}, st \in {"seed", "sprout"} :
          plants = OnePlant(PlantRow(plant_type, st))
    /\ actions = [p \in PlantIds |-> << >>]
    /\ history = [p \in PlantIds |-> << >>]
    /\ now = 0
    /\ settings = QuietSettings
    /\ \E d \in {<< 0, 0 >>, << 0, 1 >>} :
          knowledge = [t \in {"chili", "spinach"} |-> StageList(d)]
    /\ ruleDocs = (1 :> [readable |-> TRUE])
    /\ rules = load_rules(ruleDocs)
    /\ securityLog = EmptyLog
    /\ execLog = {}
    /\ tasks = [t \in {"t1"} |-> IdleTask]
    /\ used = [requests |-> 0, limit |-> MaxGrowNow + 1]
    /\ probe = [op |-> "none"]
    /\ weatherCache = NoCache

\* the interval of the scheduler's job elapses after its sweep
Interval ==
    /\ \A t \in Tasks : tasks[t].pc = "idle"
    /\ used.requests = now + 1
    /\ now < MaxGrowNow
    /\ now' = now + 1
    /\ UNCHANGED << plants, actions, history, settings, knowledge, ruleDocs, rules,
                    securityLog, execLog, tasks, used, probe, weatherCache >>

NextGrow ==
    \/ used.requests = now /\ \E t \in Tasks : StartSweep(t)
    \/ \E t \in Tasks : Begin(t)
    \/ \E t \in Tasks : Weather(t)
    \/ \E t \in Tasks : Return(t)
    \/ Interval

\* the scheduler goes on running its job, and a cycle that began ends
SpecGrow == InitGrow /\ [][NextGrow]_vars /\ WF_vars(NextGrow)

----------------------------------------------------------------------------
(* Properties *)

\* the entries the cycles in progress have logged for their proposed actions
Proposals == UNION {{tasks[t].log[i] : i \in 1..Len(tasks[t].log)} : t \in Tasks}
AtQuota(count) == count >= settings.max_daily_actions

\* C1: one call of execute writes exactly one action record and appends
\* exactly one history entry for the plant, whether the handler returns or
\* raises.
C1_OneRecordOneEntry ==
    probe.op = "execute" => probe.rows = 1 /\ probe.hist = 1

C3_ExecutedWasAccepted ==
    \A e \in execLog :
        /\ e.is_valid
        /\ e.reason \in {"ok", "human_override"}
        /\ e.source \in {"rules", "llm"} =>
              /\ e.reason = "ok"
              /\ e.type \in ALLOWED_ACTION_TYPES
              /\ e.amount_ml.v <= 2000
              /\ e.amount_grams.v <= 20

C3_Witness ==
    /\ \E e \in execLog : e.source = "rules" /\ e.type = "water"
    /\ \E e \in execLog : e.source = "manual" /\ e.amount_ml.v > 2000
    /\ securityLog["blocked_watering_limit"] > 0

\* C4: validate_action accepts every action of source manual with reason
\* human_override, whatever its type, its amounts and the plant's count of
\* today, and records no rejection for it.
C4_ManualAlwaysAccepted ==
    (probe.op = "validate_action" /\ Get(probe.action, "source", None) = "manual") =>
        /\ probe.is_valid
        /\ probe.reason = "human_override"
        /\ probe.events = 0
        /\ securityLog = EmptyLog

C4_Witness ==
    /\ probe.op = "validate_action"
    /\ probe.action.source = "manual"
    /\ probe.action.type = "spray"
    /\ Get(probe.action, "amount_ml", Num(0)).v > 2000
    /\ Get(probe.action, "amount_grams", Num(0)).v > 20
    /\ AtQuota(probe.count)
    /\ probe.is_valid

\* C5: for an action that is not manual, of an allowed type, on a plant below
\* its daily quota, a water action is rejected exactly when amount_ml > 2000
\* and a fertilize action exactly when amount_grams > 20 (a missing amount is
\* 0), whatever the configured limits are. (A call with a null amount that
\* reaches the amount check gives no verdict: C39.)
C5_FixedCeilings ==
    (/\ probe.op = "validate_action"
     /\ probe.reason # "raised"
     /\ probe.action.source # "manual"
     /\ probe.action.type \in ALLOWED_ACTION_TYPES
     /\ ~AtQuota(probe.count)) =>
        LET ml == Get(probe.action, "amount_ml", Num(0)).v
            grams == Get(probe.action, "amount_grams", Num(0)).v
        IN  /\ probe.action.type = "water" => (~probe.is_valid <=> ml > 2000)
            /\ probe.action.type = "fertilize" => (~probe.is_valid <=> grams > 20)
            /\ probe.action.type \notin {"water", "fertilize"} => probe.is_valid

C5_Witness ==
    /\ probe.op = "validate_action"
    /\ probe.action.source = "rules"
    /\ probe.action.type = "water"
    /\ Get(probe.action, "amount_ml", Num(0)).v = 2000
    /\ settings.max_watering_amount_ml = 500
    /\ ~AtQuota(probe.count)
    /\ probe.is_valid

\* C6, as stated: with the plant's count of today at or above
\* max_daily_actions, every action of source rules or llm a cycle proposes is
\* rejected with the daily-limit reason and creates no action record, while
\* a manual action of the override path is still executed and recorded.
C6_AtQuotaDailyLimitReason ==
    /\ \A e \in Proposals :
          (AtQuota(e.count) /\ e.source \in {"rules", "llm"}) =>
              ~e.is_valid /\ e.reason = "daily_limit" /\ e.rows = 0
    /\ (probe.op = "override" /\ AtQuota(probe.count)) =>
          probe.accepted /\ probe.rows >= 1

\* C6, amended: with the plant's count of today at or above
\* max_daily_actions, every action of source rules or llm a cycle proposes is
\* rejected and creates no action record: with the daily-limit reason when
\* its type is one of the allowed kinds, as an unknown type otherwise; a
\* manual action of the override path is still executed and recorded.
C6_AtQuotaRejected ==
    /\ \A e \in Proposals :
          (AtQuota(e.count) /\ e.source \in {"rules", "llm"}) =>
              /\ ~e.is_valid
              /\ e.rows = 0
              /\ e.reason = IF e.action_type \in ALLOWED_ACTION_TYPES
                            THEN "daily_limit" ELSE "unknown_type"
    /\ (probe.op = "override" /\ AtQuota(probe.count)) =>
          probe.accepted /\ probe.rows >= 1

C6_Witness ==
    /\ probe.op = "override" /\ AtQuota(probe.count) /\ probe.accepted
    /\ \E e \in Proposals :
          AtQuota(e.count) /\ e.plant_id = probe.plant_id /\ e.reason = "daily_limit"
    /\ \E e \in Proposals :
          AtQuota(e.count) /\ e.plant_id = probe.plant_id /\ e.reason = "unknown_type"

\* the rules of the documents in load order: documents by name, then position
LoadOrder == all_rules_of(ruleDocs, DOMAIN ruleDocs)
LoadPosition(rule_id) == CHOOSE i \in DOMAIN LoadOrder : LoadOrder[i].id = rule_id
Matching(context) ==
    {i \in DOMAIN LoadOrder : check_rule(LoadOrder[i], context) = "T"}

\* C7: evaluate returns one action per matching rule, in descending priority
\* (a missing priority is 10), rules of equal priority in load order; the
\* same context evaluated again gives the identical list.
C7_OnePerMatchByPriority ==
    (probe.op = "evaluate" /\ ~probe.result.raised) =>
        LET out == probe.result.matched
            hits == Matching(probe.context)
        IN  /\ Len(out) = Cardinality(hits)
            /\ \A i \in hits : \E k \in DOMAIN out :
                  /\ out[k].rule_id = LoadOrder[i].id
                  /\ out[k].type = LoadOrder[i].action.type
                  /\ out[k].priority = IF "priority" \in DOMAIN LoadOrder[i]
                                       THEN LoadOrder[i].priority ELSE 10
            /\ \A k, m \in DOMAIN out :
                  k < m =>
                     \/ out[k].priority > out[m].priority
                     \/ /\ out[k].priority = out[m].priority
                        /\ LoadPosition(out[k].rule_id) < LoadPosition(out[m].rule_id)
            /\ \A x, y \in probe.seen : x.context = y.context => x.result = y.result

C7_Witness ==
    /\ probe.op = "evaluate"
    /\ probe.calls = 2
    /\ Cardinality(probe.seen) = 1
    /\ Len(probe.result.matched) = 4
    /\ probe.result.matched[1].priority = 80
    /\ probe.result.matched[2].priority = 20
    /\ probe.result.matched[3].rule_id = "spray"
    /\ probe.result.matched[4].rule_id = "log_day"

HasAbsentField(rule, context) ==
    LET conditions == Get(rule, "conditions", << >>)
    IN  \E i \in DOMAIN conditions : conditions[i].field \notin DOMAIN context

\* C8: a condition whose field is absent from the context is false for every
\* operator, neq and not_in included, so a rule with such a condition does
\* not match that context.
C8_AbsentFieldIsFalse ==
    /\ (probe.op = "check_condition" /\ probe.condition.field \notin DOMAIN probe.context)
          => probe.result = "F"
    /\ (probe.op = "check_rule" /\ HasAbsentField(probe.rule, probe.context))
          => probe.result # "T"

C8_Witness ==
    /\ probe.op = "check_rule"
    /\ probe.rule.id = "not_listed"
    /\ probe.context.plant_state.v = "vegetative"
    /\ probe.result = "F"

StateChanges(rows) ==
    Cardinality({i \in DOMAIN rows : rows[i].event_type = "state_change"})

\* C9: a plant whose current_state is dead stays dead under the cycle: no
\* step of a sweep or a manual trigger changes its state or appends a
\* state_change history entry for it.
C9_DeadStaysDead ==
    [][\A p \in PlantIds :
          plants[p].current_state = "dead" =>
              /\ plants'[p].current_state = "dead"
              /\ plants'[p].state_changed_at = plants[p].state_changed_at
              /\ StateChanges(history'[p]) = StateChanges(history[p])]_vars

C9_Witness ==
    /\ plants["p1"].current_state = "dead"
    /\ now = 2
    /\ \E t \in Tasks : tasks[t].pc = "done" /\ Head(tasks[t].queue) = "p1"
    /\ StateChanges(history["p2"]) = 1

\* the max_days the knowledge holds for the plant's type and state, 14 when
\* it holds none
ExpectedMaxDays(plant) ==
    LET st == IF plant.current_state \in PlantState THEN plant.current_state ELSE "seed"
        known == IF plant.plant_type \in DOMAIN knowledge
                 THEN {i \in DOMAIN knowledge[plant.plant_type] :
                          knowledge[plant.plant_type][i].name = st}
                 ELSE {}
    IN  IF known = {} THEN 14
        ELSE knowledge[plant.plant_type][MinOf(known)].duration_days[2]

\* C10: should_transition returns none whenever the whole days spent in the
\* current state are below the stage's max_days (the knowledge's, or 14 when
\* the plant type or the stage is unknown); at days = max_days the gate is
\* open: a plant that is not dead gets its next state.
C10_GateAtMaxDays ==
    probe.op = "should_transition" =>
        LET plant == probe.plant
            elapsed == now - plant.state_changed_at
            whole_days == IF elapsed < 0 THEN 0 ELSE elapsed \div 2
            max_days == ExpectedMaxDays(plant)
        IN  /\ probe.days = whole_days
            /\ whole_days < max_days => probe.result = None
            /\ (whole_days >= max_days /\ plant.current_state # "dead")
                  => probe.result # None

C10_Witness ==
    /\ probe.op = "should_transition"
    /\ probe.plant.plant_type = "orchid"
    /\ probe.plant.current_state = "vegetative"
    /\ probe.days = 13
    /\ now - probe.plant.state_changed_at = 27
    /\ probe.result = None

\* C11: a plant of a flowering-skipping type (spinach, lettuce, hydroponic)
\* sown as seed is never in state flowering, whatever sweeps and triggers
\* run: should_transition never answers flowering for it, no state change
\* of its history leads to flowering, and it leaves vegetative for harvest.
C11_NeverFlowering ==
    \A p \in PlantIds :
        plants[p].plant_type \in {"spinach", "lettuce", "hydroponic"} =>
            /\ plants[p].current_state # "flowering"
            /\ should_transition(plants[p]) # "flowering"
            /\ \A i \in DOMAIN history[p] :
                  history[p][i].event_type = "state_change" =>
                      /\ history[p][i].to_state # "flowering"
                      /\ history[p][i].from_state = "vegetative" =>
                            history[p][i].to_state = "harvest"

C11_Witness ==
    /\ plants["p1"].plant_type = "lettuce"
    /\ plants["p1"].current_state = "harvest"
    /\ StateChanges(history["p1"]) = 6
    /\ \E i \in DOMAIN history["p1"] :
          /\ history["p1"][i].event_type = "state_change"
          /\ history["p1"][i].from_state = "vegetative"
          /\ history["p1"][i].to_state = "harvest"

\* C12: for a plant that is not dead and has spent max_days or more whole
\* days in its state, should_transition answers the first successor of the
\* state that is not dead, flowering left out for the flowering-skipping
\* plant types: seed -> germination, germination -> vegetative, vegetative ->
\* flowering (harvest when flowering is skipped), flowering -> harvest,
\* harvest -> dormant, dormant -> vegetative.
C12_FirstLivingSuccessor ==
    (/\ probe.op = "should_transition"
     /\ probe.plant.current_state # "dead"
     /\ probe.days >= ExpectedMaxDays(probe.plant)) =>
        LET st == probe.plant.current_state
            skips == probe.plant.plant_type \in {"spinach", "lettuce", "hydroponic"}
        IN  probe.result =
                CASE st = "seed" -> "germination"
                  [] st = "germination" -> "vegetative"
                  [] st = "vegetative" -> IF skips THEN "harvest" ELSE "flowering"
                  [] st = "flowering" -> "harvest"
                  [] st = "harvest" -> "dormant"
                  [] st = "dormant" -> "vegetative"

C12_Witness ==
    /\ probe.op = "should_transition"
    /\ probe.plant.plant_type = "spinach"
    /\ probe.plant.current_state = "vegetative"
    /\ probe.days = 5
    /\ ExpectedMaxDays(probe.plant) = 5
    /\ probe.result = "harvest"

\* C17: a rule matches a context exactly when its condition list is not
\* empty and every condition of it is true; a rule whose condition list is
\* empty or missing matches no context.
C17_AllConditionsAnd ==
    probe.op = "check_rule" =>
        LET conditions == Get(probe.rule, "conditions", << >>)
        IN  /\ probe.result = "T" <=>
                  /\ conditions # << >>
                  /\ \A i \in DOMAIN conditions :
                        check_condition(conditions[i], probe.context) = "T"
            /\ conditions = << >> => probe.result = "F"

C17_Witness ==
    /\ probe.op = "check_rule"
    /\ "conditions" \notin DOMAIN probe.rule
    /\ probe.result = "F"

\* the checks of the guard an action fails, as the claim orders them
FailedChecks(action, count) ==
    LET ml == Get(action, "amount_ml", Num(0)).v
        grams == Get(action, "amount_grams", Num(0)).v
    IN  << IF action.type \notin {"water", "skip_water", "fertilize", "harvest",
                                  "notify", "alert", "log"}
           THEN "unknown_type" ELSE "pass",
           IF AtQuota(count) THEN "daily_limit" ELSE "pass",
           IF action.type = "water" /\ ml > 2000 THEN "watering_limit" ELSE "pass",
           IF action.type = "fertilize" /\ grams > 20 THEN "fertilizer_limit" ELSE "pass" >>

FirstFailed(checks) ==
    LET failed == {i \in DOMAIN checks : checks[i] # "pass"}
    IN  IF failed = {} THEN "ok" ELSE checks[MinOf(failed)]

\* C18: validate_action checks in the order manual override, action type,
\* daily quota, water ceiling, fertilizer ceiling and answers with the first
\* check that fails, logging that rejection only: an unknown type at an
\* exhausted quota is rejected as unknown type, water above the ceiling at an
\* exhausted quota with the daily-limit reason. (A call with a null amount
\* that reaches the amount check gives no verdict: C39.)
C18_FirstFailingCheck ==
    (probe.op = "validate_action" /\ probe.reason # "raised") =>
        LET expected == IF probe.action.source = "manual" THEN "human_override"
                        ELSE FirstFailed(FailedChecks(probe.action, probe.count))
        IN  /\ probe.reason = expected
            /\ probe.is_valid <=> expected \in {"human_override", "ok"}
            /\ \A e \in SecurityEvents :
                  securityLog[e] = IF e = "blocked_" \o expected THEN 1 ELSE 0

C18_Witness ==
    /\ probe.op = "validate_action"
    /\ probe.action.source = "llm"
    /\ probe.action.type = "water"
    /\ Get(probe.action, "amount_ml", Num(0)).v = 3001
    /\ AtQuota(probe.count)
    /\ probe.reason = "daily_limit"
    /\ securityLog["blocked_watering_limit"] = 0

\* the conditions of a rule that do not fit the context: an unknown operator,
\* an ordering between a string and a number, a membership test against a
\* scalar
Misfit(condition, context) ==
    LET actual == context[condition.field]
    IN  /\ condition.field \in DOMAIN context
        /\ \/ condition.operator \notin {"eq", "neq", "gt", "gte", "lt", "lte", "in",
                                         "not_in", "contains"}
           \/ /\ condition.operator \in {"gt", "gte", "lt", "lte"}
              /\ actual.k # condition.value.k
           \/ /\ condition.operator \in {"in", "not_in"}
              /\ condition.value.k = "num"

\* C15: evaluate returns a list and raises no error for every loaded rule
\* set and every context; a rule with a condition that does not fit the
\* context yields no action.
C15_EvaluateNeverRaises ==
    probe.op = "evaluate" =>
        /\ ~probe.result.raised
        /\ \A k \in DOMAIN probe.result.matched :
              \A i \in DOMAIN rules :
                  rules[i].id = probe.result.matched[k].rule_id =>
                      \A c \in DOMAIN rules[i].conditions :
                          ~Misfit(rules[i].conditions[c], probe.context)

\* C14: execute raises nothing to its caller: when the handler or the write
\* of the executed record or of its history entry fails, the call returns a
\* result of status error and has written an action record of status
\* skipped.
C14_ExecuteNeverRaises ==
    probe.op = "execute" =>
        /\ probe.result.status \in {"ok", "error"}
        /\ probe.fault # "none" =>
              /\ probe.result.status = "error"
              /\ \E i \in DOMAIN actions[probe.plant_id] :
                    /\ i > Len(actions[probe.plant_id]) - probe.rows
                    /\ actions[probe.plant_id][i].status = "skipped"

\* the results of a list that carry the plant's id
ResultsOf(results, p) == SelectSeq(results, LAMBDA r : r.plant_id = p)

\* C13: a sweep calls the per-plant cycle once for every plant that was
\* active when it started, in order, also after the cycle of an earlier
\* plant raised; when it ends, the list it returns holds, for every plant
\* whose cycle did not raise, one result per action record the cycle wrote.
C13_SweepSurvivesFailure ==
    [][\A t \in Tasks :
          (tasks[t].kind = "sweep" /\ tasks'[t].pc = "idle") =>
              LET task == tasks[t]
                  failed == task.failed \cup (IF task.pc = "raised"
                                              THEN {Head(task.queue)} ELSE {})
              IN  /\ task.plan = get_active_plants
                  /\ task.calls = task.plan
                  /\ \A i \in DOMAIN task.plan :
                        task.plan[i] \notin failed =>
                            Len(ResultsOf(returned(task), task.plan[i]))
                                = Len(actions[task.plan[i]])]_vars

C13_Witness ==
    \E t \in Tasks :
        /\ tasks[t].kind = "sweep"
        /\ tasks[t].pc = "done"
        /\ tasks[t].plan = << "p1", "p2", "p3" >>
        /\ tasks[t].queue = << "p3" >>
        /\ tasks[t].failed = {"p1", "p2"}
        /\ plants["p1"].plant_type = "chili"
        /\ Len(actions["p2"]) = 2
        /\ Len(ResultsOf(returned(tasks[t]), "p3")) = 2
        /\ Len(returned(tasks[t])) = 2

\* C19: in a per-plant cycle the advisory suggester is consulted at most
\* once, and only when evaluate returned no action and the suggester is
\* enabled; when rules matched (also when every matched action was rejected)
\* it is not consulted; its suggestion is the only action the cycle validates,
\* and is executed and answered for only when validate_action accepted it.
C19_SuggesterOnlyWithoutRules ==
    /\ \A t \in Tasks :
          LET task == tasks[t]
          IN  /\ task.consulted \in {0, 1}
              /\ task.consulted = 1 => task.matched = << >> /\ settings.llm_enabled
              /\ task.matched # << >> =>
                    /\ task.consulted = 0
                    /\ \A i \in DOMAIN task.log : task.log[i].source = "rules"
              /\ \A i \in DOMAIN task.log :
                    task.log[i].source = "llm" =>
                        /\ task.consulted = 1
                        /\ Len(task.log) = 1
                        /\ task.log[i].rows >= 1 <=> task.log[i].is_valid
                        /\ Len(task.results) = IF task.log[i].is_valid THEN 1 ELSE 0
    /\ \A e \in execLog : e.source = "llm" => e.is_valid

C19_Witness ==
    /\ settings.llm_enabled
    /\ \E e \in execLog : e.source = "llm"
    /\ \E t \in Tasks :
          /\ tasks[t].pc = "done"
          /\ Len(tasks[t].matched) = 2
          /\ Len(tasks[t].log) = 2
          /\ \A i \in DOMAIN tasks[t].log : ~tasks[t].log[i].is_valid
          /\ tasks[t].consulted = 0
          /\ tasks[t].results = << >>

\* C20: the loop of a per-plant cycle validates the matched actions in the
\* order evaluate returned them and goes through all of them, a rejection
\* stopping nothing; an accepted action has written its record before the
\* next one is validated; the results hold one entry per accepted action,
\* in the same order.
C20_LoopValidatesAllInOrder ==
    \A t \in Tasks :
        (tasks[t].pc \in {"loop", "notify", "done"} /\ tasks[t].matched # << >>) =>
            LET task == tasks[t]
                log == task.log
                accepted == SelectSeq(log, LAMBDA e : e.is_valid)
            IN  /\ Len(log) <= Len(task.matched)
                /\ \A i \in DOMAIN log :
                      /\ log[i].rule_id = task.matched[i].rule_id
                      /\ log[i].action_type = task.matched[i].type
                /\ task.pending = SubSeq(task.matched, Len(log) + 1, Len(task.matched))
                /\ task.pc = "done" => Len(log) = Len(task.matched)
                /\ \A i \in DOMAIN log :
                      /\ log[i].is_valid => log[i].rows >= 1
                      /\ i < Len(log) => log[i + 1].count >= log[i].count + log[i].rows
                /\ Len(task.results) = Len(accepted)
                /\ \A i \in DOMAIN accepted : task.results[i].rule_id = accepted[i].rule_id

C20_Witness ==
    \E t \in Tasks :
        /\ tasks[t].pc = "done"
        /\ Len(tasks[t].log) = 3
        /\ tasks[t].log[1].is_valid
        /\ ~tasks[t].log[2].is_valid
        /\ tasks[t].log[3].is_valid
        /\ tasks[t].log[3].count = tasks[t].log[1].count + 1
        /\ Len(tasks[t].results) = 2
        /\ tasks[t].results[2].rule_id = tasks[t].log[3].rule_id

\* C16: the guard's read of today's count and the write of the action record
\* are two steps. Every cycle action is executed on a read below
\* max_daily_actions, and still today's count of a plant goes above the
\* ceiling when two cycles for it run at once: by one per cycle that had
\* read the count before another cycle wrote (the step that takes the count
\* above the ceiling is the write of a cycle whose read is out of date).
C16_QuotaReadThenWrite ==
    /\ [](\A e \in execLog : e.count < settings.max_daily_actions)
    /\ [](\A p \in PlantIds :
            get_today_actions_count(p)
                <= settings.max_daily_actions + Cardinality(Tasks) - 1)
    /\ [][\A p \in PlantIds :
            (/\ Len(actions[p]) <= settings.max_daily_actions
             /\ Len(actions'[p]) > settings.max_daily_actions) =>
                \E t \in Tasks :
                    /\ tasks[t].pc = "validated"
                    /\ tasks'[t].pc # "validated"
                    /\ tasks[t].read.count < Len(actions[p])]_vars

C16_Witness ==
    /\ settings.max_daily_actions = 1
    /\ get_today_actions_count("p1") = 2
    /\ \A i \in DOMAIN actions["p1"] :
          actions["p1"][i].source = "rules" /\ actions["p1"][i].status = "executed"
    /\ \A t \in Tasks :
          /\ Head(tasks[t].queue) = "p1"
          /\ Len(tasks[t].log) = 1
          /\ tasks[t].log[1].is_valid
          /\ tasks[t].log[1].count = settings.max_daily_actions - 1

\* C21: a transition that is due is persisted and the plant reloaded before
\* the weather fetch: the stored row and the row the cycle holds both carry
\* the new state and the time of the change. The context built afterwards has
\* the new state as plant_state and counts days_in_state from the new
\* state_changed_at, and what the rules matched in the cycle is what they
\* match on that context.
C21_ContextAfterTransition ==
    /\ [][\A t \in Tasks :
            (tasks[t].pc = "begin" /\ tasks'[t].new_state # None) =>
                LET p == Head(tasks[t].queue)
                IN  /\ plants'[p].current_state = tasks'[t].new_state
                    /\ plants'[p].state_changed_at = now
                    /\ tasks'[t].plant = plants'[p]]_vars
    /\ [](\A t \in Tasks :
            (tasks[t].context # << >> /\ tasks[t].new_state # None) =>
                /\ tasks[t].context.plant_state = Str(tasks[t].new_state)
                /\ tasks[t].context.days_in_state
                      = Num(Max(0, days(now - tasks[t].plant.state_changed_at)))
                /\ tasks[t].plant.state_changed_at > 0
                /\ tasks[t].pc # "raised" =>
                      tasks[t].matched = evaluate(tasks[t].context).matched)

C21_Witness ==
    \E t \in Tasks :
        /\ tasks[t].new_state = "harvest"
        /\ tasks[t].context # << >>
        /\ tasks[t].context.plant_state = Str("harvest")
        /\ tasks[t].context.days_in_state = Num(0)
        /\ tasks[t].context.days_since_planting = Num(1)
        /\ \E i \in DOMAIN tasks[t].matched : tasks[t].matched[i].rule_id = "harvest_alert"
        /\ \A i \in DOMAIN tasks[t].matched : tasks[t].matched[i].rule_id # "flood"

StateChangeRows(rows) == SelectSeq(rows, LAMBDA h : h.event_type = "state_change")

\* C22: a step of a cycle changes the stored row of a plant exactly when it
\* appends one state_change entry to the plant's history; the entry names
\* the state before, the state after and the days spent in the state before,
\* and the row carries the new state with state_changed_at = now. So the
\* state_change entries of a plant are as many as the transitions applied to
\* it: they form a chain from the state it was sown in to its current state.
C22_OneEntryPerTransition ==
    /\ [][\A p \in PlantIds :
            LET before == StateChangeRows(history[p])
                after == StateChangeRows(history'[p])
            IN  /\ (plants'[p] # plants[p]) <=> (after # before)
                /\ (plants'[p] # plants[p]) =>
                     /\ after = before \o
                           << [event_type |-> "state_change",
                               from_state |-> plants[p].current_state,
                               to_state |-> plants'[p].current_state,
                               days_in_previous_state |->
                                   Max(0, days(now - plants[p].state_changed_at))] >>
                     /\ plants'[p].current_state # plants[p].current_state
                     /\ plants'[p].state_changed_at = now]_vars
    /\ [](\A p \in PlantIds :
            LET changes == StateChangeRows(history[p])
            IN  /\ \A i \in DOMAIN changes :
                      changes[i].from_state = IF i = 1 THEN "seed" ELSE changes[i - 1].to_state
                /\ plants[p].current_state
                      = IF changes = << >> THEN "seed" ELSE changes[Len(changes)].to_state)

C22_Witness ==
    LET changes == StateChangeRows(history["p1"])
    IN  /\ Len(changes) = 3
        /\ plants["p1"].plant_type = "chili"
        /\ plants["p1"].current_state = "flowering"
        /\ plants["p1"].state_changed_at = 2
        /\ changes[3].days_in_previous_state = 1

\* C23: run_single_plant for an id of no plant, or of an inactive plant,
\* returns at once with no result and leaves every table as it was: no state
\* change, no action record, no history entry, no security event, no weather
\* fetch and no notification; a cycle that goes on to the weather fetch, the
\* loop or a notification holds an active plant.
C23_MissingOrInactiveIsNoOp ==
    /\ [][\A t \in Tasks :
            (/\ tasks[t].pc = "begin"
             /\ \/ Head(tasks[t].queue) \notin PlantIds
                \/ ~plants[Head(tasks[t].queue)].is_active) =>
                /\ tasks'[t].pc = "done"
                /\ tasks'[t].results = << >>
                /\ returned(tasks'[t]) = tasks[t].all_results
                /\ UNCHANGED << plants, actions, history, securityLog, execLog,
                                weatherCache >>]_vars
    /\ [](\A t \in Tasks :
            tasks[t].pc \in {"weather", "cached", "loop", "notify"} =>
                /\ Head(tasks[t].queue) \in PlantIds
                /\ tasks[t].plant.is_active)

C23_Witness ==
    \E t \in Tasks :
        /\ tasks[t].kind = "sweep"
        /\ tasks[t].plan = << "p1", "p2" >>
        /\ tasks[t].calls = << "p1", "p2" >>
        /\ tasks[t].pc = "done"
        /\ ~plants["p2"].is_active
        /\ history["p2"] = << >>
        /\ actions["p2"] = << >>
        /\ tasks[t].results = << >>
        /\ tasks[t].all_results # << >>

\* C24: a cycle for an active plant that ends with no rule matched and no
\* suggestion obtained (the suggester absent, disabled, or answering none)
\* appends one "cycle" history entry saying "No action needed" and creates
\* no action record.
C24_NoActionCycleLeavesEntry ==
    [][\A t \in Tasks :
          (/\ tasks[t].pc \in {"weather", "cached"}
           /\ tasks'[t].pc = "done"
           /\ tasks'[t].matched = << >>
           /\ tasks'[t].log = << >>) =>
              LET p == Head(tasks[t].queue)
              IN  /\ history'[p] = history[p] \o
                        << [event_type |-> "cycle", message |-> "No action needed"] >>
                  /\ actions' = actions]_vars

\* C25: get_next_state answers what should_transition answers once the
\* duration gate is open: for every plant type and every state but dead,
\* with the days in state at or above max_days, the two agree; for a dead
\* plant get_next_state answers none.
C25_NextStateIsUngatedTransition ==
    probe.op = "get_next_state" =>
        LET current == get_current_state(probe.plant)
            max_days == get_stage_duration(probe.plant.plant_type, current)[2]
        IN  /\ current = "dead" => probe.result = None
            /\ (current # "dead" /\ probe.days >= max_days) =>
                  probe.result = should_transition(probe.plant)

\* C26: cycles for one plant are serialized: while a cycle for a plant is
\* suspended on the event loop (at its weather fetch or at a notification
\* send), no other cycle on that loop is in progress for the same plant.
C26_CyclesOfOnePlantSerialized ==
    \A t \in Tasks : \A u \in Tasks \ {t} :
        (/\ tasks[t].kind \notin {"none", "thread"}
         /\ tasks[u].kind \notin {"none", "thread"}
         /\ tasks[t].pc \in {"weather", "notify"}) =>
            Head(tasks[u].queue) # Head(tasks[t].queue)

C28_NotifyAfterExecuteNeverFatal ==
    /\ [](\A t \in Tasks :
            tasks[t].pc = "notify" =>
                LET last == tasks[t].log[Len(tasks[t].log)]
                IN  /\ settings.notification_enabled
                    /\ last.source = "rules"
                    /\ last.action_type \in {"alert", "notify"}
                    /\ last.is_valid
                    /\ last.rows >= 1)
    /\ [][\A t \in Tasks :
            tasks[t].pc = "notify" =>
                /\ tasks'[t].pc \in {"notify", "loop"}
                /\ tasks'[t].pending = tasks[t].pending]_vars

\* the documents that are read and parsed and hold a list of rules that are
\* mappings with a number, or nothing, as priority
WellFormed(doc) ==
    /\ doc.readable
    /\ "rules" \in DOMAIN doc
    /\ Get(doc, "iterable", TRUE)
    /\ \A i \in DOMAIN doc.rules :
          "k" \notin DOMAIN doc.rules[i] /\ "priority_text" \notin DOMAIN doc.rules[i]

\* C29: loading the rule set never fails: whatever the documents hold, a
\* document that cannot be read or whose content is malformed is skipped,
\* and the rules loaded are the rules of the other documents, sorted.
C29_LoadSkipsMalformedDocuments ==
    probe.op = "load_rules" =>
        /\ ~probe.raised
        /\ \A n \in DOMAIN ruleDocs : WellFormed(ruleDocs[n]) =>
              \A i \in DOMAIN ruleDocs[n].rules :
                  \E j \in DOMAIN rules : rules[j] = ruleDocs[n].rules[i]
        /\ \A i \in DOMAIN rules : \A j \in DOMAIN rules :
              i < j => priority_of(rules[i]) >= priority_of(rules[j])

\* C30: every change of a plant's persisted current_state, made by a cycle
\* or by the plant-update operation, goes from a state s to a state that the
\* adjacency table lists for s.
C30_StateChangesFollowTransitions ==
    [][\A p \in PlantIds :
          plants'[p].current_state # plants[p].current_state =>
              \E i \in DOMAIN TRANSITIONS[plants[p].current_state] :
                  TRANSITIONS[plants[p].current_state][i] = plants'[p].current_state]_vars

\* C31: a plant whose stored state is no state is treated as seed, without
\* an error: should_transition and get_next_state answer for it what they
\* answer for the same plant in seed, the next state being germination; a
\* cycle leaves it alone while its days in state are below seed's max_days
\* and moves it to germination once they have reached them.
C31_UnknownStateIsSeed ==
    /\ [](\A p \in PlantIds :
            plants[p].current_state \notin PlantState =>
                LET as_seed == [plants[p] EXCEPT !.current_state = "seed"]
                    open == Max(0, days(now - plants[p].state_changed_at))
                                >= ExpectedMaxDays(as_seed)
                IN  /\ get_next_state(plants[p]) = "germination"
                    /\ should_transition(plants[p]) = should_transition(as_seed)
                    /\ should_transition(plants[p])
                          = IF open THEN "germination" ELSE None
                    /\ \A t \in Tasks :
                          tasks[t].pc \notin {"idle", "begin"} => ~open)
    /\ [][\A p \in PlantIds :
            (plants[p].current_state \notin PlantState /\ plants'[p] # plants[p]) =>
                plants'[p].current_state = "germination"]_vars

C31_Witness ==
    /\ plants["p1"].current_state = "germination"
    /\ plants["p1"].state_changed_at = 2
    /\ history["p1"] # << >>
    /\ history["p1"][Len(history["p1"])]
          = [event_type |-> "state_change", from_state |-> "sprout",
             to_state |-> "germination", days_in_previous_state |-> 1]

DaysSince(plant_id, action_type) ==
    LET at == {actions[plant_id][i].created_at : i \in
                  {j \in DOMAIN actions[plant_id] :
                      /\ actions[plant_id][j].action_type = action_type
                      /\ actions[plant_id][j].status = "executed"}}
    IN  IF at = {} THEN 9999
        ELSE (now - (CHOOSE x \in at : \A y \in at : y <= x)) \div 2

\* C33: the context a cycle builds holds, for water and for fertilize, 9999
\* when the plant has no executed action of the type, and then a condition
\* 'days_since_last_water gte N' is true for every N up to 9999; otherwise
\* it holds the whole days since the latest executed action of the type,
\* which is never negative.
C33_DaysSinceLastAction ==
    [][\A t \in Tasks :
          (tasks[t].pc \in {"weather", "cached"} /\ tasks'[t].pc \notin {"weather", "cached"}) =>
              LET p == Head(tasks[t].queue)
                  context == tasks'[t].context
                  water == context.days_since_last_water
              IN  /\ water = Num(DaysSince(p, "water"))
                  /\ context.days_since_last_fertilize = Num(DaysSince(p, "fertilize"))
                  /\ water.v >= 0
                  /\ DaysSince(p, "water") = 9999 =>
                        \A N \in {1, 2, 9999} :
                            check_condition([field |-> "days_since_last_water",
                                             operator |-> "gte", value |-> Num(N)],
                                            context) = "T"]_vars

C33_Witness ==
    \E t \in Tasks :
        /\ tasks[t].pc = "loop"
        /\ tasks[t].context.days_since_last_water = Num(1)
        /\ tasks[t].context.days_since_last_fertilize = Num(9999)

\* C34: should_transition never answers dead, so no step of a sweep or of a
\* manual trigger moves a plant into dead: a row whose state becomes dead
\* was written by the plant update.
C34_CyclesNeverKill ==
    /\ [](\A p \in PlantIds : should_transition(plants[p]) # "dead")
    /\ [](\A t \in Tasks : tasks[t].new_state # "dead")
    /\ [][\A p \in PlantIds :
            (plants'[p].current_state = "dead" /\ plants[p].current_state # "dead") =>
                /\ probe'.op = "update_plant"
                /\ probe' # probe
                /\ tasks' = tasks]_vars

C34_Witness ==
    /\ probe.op = "update_plant"
    /\ probe.status = 200
    /\ plants["p2"].current_state = "dead"
    /\ history["p1"] # << >>
    /\ history["p1"][1].event_type = "state_change"
    /\ history["p1"][1].to_state = "dormant"

\* C35: a cycle changes the row of its plant only in its first step, and by
\* one edge: however long the plant is overdue, it enters the next state
\* only, with state_changed_at = now, so that its days in state are 0 again.
\* A cycle moves the plant exactly when the days in its state have reached
\* the stage's max_days: a plant moved today is moved again today only from
\* a stage whose max_days is 0.
C35_OneTransitionPerCycle ==
    [][\A p \in PlantIds :
          LET spent == Max(0, days(now - plants[p].state_changed_at))
              begins == \E t \in Tasks :
                            /\ tasks[t].pc = "begin"
                            /\ tasks'[t].pc # "begin"
                            /\ Head(tasks[t].queue) = p
          IN  /\ plants'[p] # plants[p] =>
                  /\ begins
                  /\ \E i \in DOMAIN TRANSITIONS[plants[p].current_state] :
                        TRANSITIONS[plants[p].current_state][i] = plants'[p].current_state
                  /\ plants'[p].state_changed_at = now'
                  /\ Max(0, days(now' - plants'[p].state_changed_at)) = 0
                  /\ Len(StateChangeRows(history'[p])) = Len(StateChangeRows(history[p])) + 1
                  /\ spent >= ExpectedMaxDays(plants[p])
                  /\ spent = 0 => ExpectedMaxDays(plants[p]) = 0
              /\ (begins /\ spent >= ExpectedMaxDays(plants[p])) => plants'[p] # plants[p]]_vars

C35_Witness ==
    LET changes == StateChangeRows(history["p1"])
    IN  /\ now = 2
        /\ Len(changes) = 2
        /\ changes[1].days_in_previous_state = 1
        /\ changes[2].days_in_previous_state = 0
        /\ plants["p1"].current_state = "vegetative"
        /\ plants["p1"].state_changed_at = 2
        /\ ExpectedMaxDays(plants["p1"]) = 0

\* C36: no action a cycle proposes is validated as a human override: every
\* action a cycle hands to validate_action carries the source rules or llm,
\* also when the rule's template states source manual, and is never answered
\* with the reason human_override; an execution under that reason is made
\* by an override request only.
C36_CyclesNeverOverride ==
    /\ [](\A t \in Tasks : \A i \in DOMAIN tasks[t].log :
            /\ tasks[t].log[i].source \in {"rules", "llm"}
            /\ tasks[t].log[i].reason # "human_override")
    /\ [](\A e \in execLog : e.reason = "human_override" <=> e.source = "manual")
    /\ [][(\E e \in execLog' \ execLog : e.reason = "human_override") =>
            /\ tasks' = tasks
            /\ probe'.op = "override"]_vars

C36_Witness ==
    /\ \E e \in execLog : e.reason = "human_override"
    /\ \E t \in Tasks : \E i \in DOMAIN tasks[t].log :
          /\ tasks[t].log[i].rule_id = "spray"
          /\ tasks[t].matched[i].source = "manual"
          /\ tasks[t].log[i].source = "rules"
          /\ ~tasks[t].log[i].is_valid

\* the rows of the plant's actions written today, of any status and source
RowsOfToday(plant_id) ==
    {i \in DOMAIN actions[plant_id] : actions[plant_id][i].created_at >= (now \div 2) * 2}

C38_EveryStateIsLeft ==
    /\ \A s \in PlantState \cup {"sprout"} :
          (plants["p1"].current_state = s /\ now + 2 <= MaxGrowNow)
              ~> (plants["p1"].current_state # s)
    /\ (plants["p1"].current_state \in {"seed", "sprout"})
          ~> (plants["p1"].current_state = "harvest")

C38_Witness ==
    /\ plants["p1"].current_state = "harvest"
    /\ plants["p1"].plant_type = "chili"
    /\ plants["p1"].state_changed_at = 8
    /\ Len(StateChangeRows(history["p1"])) = 4

\* C39: validate_action answers with an accepted or rejected verdict and
\* raises nothing, whatever the action: also for a water or fertilize action
\* whose amount is absent or null.
C39_ValidateNeverRaises ==
    probe.op = "validate_action" => probe.reason # "raised"

\* C40: when cycles for one plant overlap, the water rule conditioned on
\* days_since_last_water being at least 1 leads to at most one executed
\* water action on a day: a cycle whose context was built before another
\* cycle wrote its water record executes no water action.
C40_OverlappingCyclesWaterOnce ==
    \A p \in PlantIds :
        Cardinality({i \in DOMAIN actions[p] :
                        /\ actions[p][i].action_type = "water"
                        /\ actions[p][i].status = "executed"}) <= 1

====
